---- MODULE Spec2Model ----
(***************************************************************************)
(* The collection installation driver (src/src/util/InstallDriver.ts) as a *)
(* state machine.  The driver object's private fields are the variables,   *)
(* every public method and every subscribed host event is one action, and  *)
(* what a handler sends out (signals, notifications, update callbacks) is  *)
(* recorded per step in output variables.                                  *)
(***************************************************************************)
EXTENDS Integers, Sequences, FiniteSets, TLC

\* ------------------------------------------------------------------ bounds
MaxInstalled == 1     \* cap on the length of mInstalledMods (it only grows)

\* ------------------------------------------------------------------ domains
Undefined == "undefined"
\* An optional value that is not a string: absent, or the value wrapped.
None == << >>
Some(x) == << x >>

Packages == {"A", "C", "D"}
\* The packages the install subsystem gets to install in the runs explored;
\* the others stay missing.
Installable == {"A", "C"}
Profiles == {"P1"}
Bundles == {"B1", "B2"}
GameId == "game"

Steps == {"prepare", "changelog", "query", "start", "disclaimer",
          "installing", "recommendations", "review"}

MOD_TYPE == "collection"
INSTALLING_NOTIFICATION_ID == "installing-collection-"

\* The archive a bundle was installed from.
ArchiveOf(b) == "archive-" \o b

\* collection?.archiveId === undefined
NoArchive(c) == c = Undefined \/ ArchiveOf(c) = Undefined

\* Type of a mod of the store: bundles are mods of type MOD_TYPE.
ModType(id) == IF id \in Bundles THEN MOD_TYPE ELSE ""

\* ------------------------------------------------------------------ files
File(p, h) == [path |-> p, md5 |-> h]
FileListA == <<File("a", "h1"), File("b", "h2")>>
\* What the walk of an installed package's directory can report.
DiskVariants ==
  { <<File("a", "h1"), File("b", "h2")>>,
    <<File("b", "h2"), File("a", "h1")>>,
    <<File("a", "h1")>>,
    <<File("a", "h1"), File("b", "h2"), File("c", "h3")>>,
    <<File("a", "h1"), File("b", "h9")>> }

\* ------------------------------------------------------------------ rules
\* Installer choices recorded on an installed package (attributes
\* .installerChoices.options); "none" is the empty options object.
\* Package C was installed with options X; the rule of B1 expects options Y.
ModChoices(p) == IF p = "C" THEN "optsX" ELSE "none"

\* Declared size of the file a reference points at.
SizeOf(p) == CASE p = "A" -> 10 [] p = "C" -> 20 [] OTHER -> 30

Rule(t, p, fl, ch) ==
  [type |-> t, reference |-> p, fileList |-> fl, installerChoices |-> ch,
   ignored |-> FALSE]

RulesB1 ==
  << Rule("requires", "A", Some(FileListA), "none"),
     Rule("requires", "C", None, "optsY"),
     Rule("recommends", "D", None, "none") >>

\* A rule the user has chosen to ignore.
Ignored(r) == [r EXCEPT !.ignored = TRUE]

RulesB2 ==
  << Rule("recommends", "C", None, "none"),
     Rule("requires", "A", Some(FileListA), "none"),
     Ignored(Rule("requires", "D", None, "none")) >>

RulesOf(b) == IF b = "B1" THEN RulesB1 ELSE RulesB2

\* ------------------------------------------------------------------ state
VARIABLES
  mProfile,        \* profile of the session, or Undefined
  mCollection,     \* bundle of the session, or Undefined
  mStep,           \* phase
  mInstalledMods,  \* sequence of packages installed for the session
  mRequiredMods,   \* sequence of rules computed by startImpl
  mInstallingMod,  \* package being installed, or Undefined
  mInstallDone,
  mTotalSize,      \* None, or Some(size)
  mods,            \* the store: packages installed (bundles always are)
  modState,        \* the store: state of each package ("none": not there)
  received,        \* the downloads: bytes received of each package's archive
  mPrepare,        \* the pending-operation chain: the preparations the
                   \* promise waits for ({}: a resolved promise)
  preps,           \* the preparations handed to prepare()
  calls,           \* the query()/start() calls made, each with its position
  upd,             \* the run of the reconciliation workflow
  mOnStop,         \* the suppression this.mOnStop releases (0: undefined)
  suppressed,      \* the host: the test suppressions still pending
  outbox,          \* what the last step sent out, in order
  lastCall,        \* the public method or host event the last step ran
  lastArgs         \* the arguments of that call, for query and the
                   \* dependency events (<< >> for the others)

driverVars == << mProfile, mCollection, mStep, mInstalledMods, mRequiredMods,
                 mInstallingMod, mInstallDone, mTotalSize >>
storeVars == << mods, modState, received >>
suppressVars == << mOnStop, suppressed >>
prepVars == << mPrepare, preps, calls, upd, suppressVars >>
vars == << driverVars, storeVars, prepVars, outbox, lastCall, lastArgs >>

\* The driver's fields as one value, so that a handler is a function on it.
Self ==
  [mProfile |-> mProfile, mCollection |-> mCollection, mStep |-> mStep,
   mInstalledMods |-> mInstalledMods, mRequiredMods |-> mRequiredMods,
   mInstallingMod |-> mInstallingMod, mInstallDone |-> mInstallDone,
   mTotalSize |-> mTotalSize, outbox |-> << >>]

Commit(d) ==
  /\ mProfile' = d.mProfile
  /\ mCollection' = d.mCollection
  /\ mStep' = d.mStep
  /\ mInstalledMods' = d.mInstalledMods
  /\ mRequiredMods' = d.mRequiredMods
  /\ mInstallingMod' = d.mInstallingMod
  /\ mInstallDone' = d.mInstallDone
  /\ mTotalSize' = d.mTotalSize
  /\ outbox' = d.outbox

\* ------------------------------------------------------------------ outputs
Out(kind, name, arg) == [kind |-> kind, name |-> name, arg |-> arg]

triggerUpdate(d) ==
  [d EXCEPT !.outbox = Append(@, Out("update", "", << >>))]

dismissNotification(d, id) ==
  [d EXCEPT !.outbox = Append(@, Out("dismiss", id, << >>))]

sendNotification(d, type, id, displayMS) ==
  [d EXCEPT !.outbox = Append(@, Out("notify", id, << type, displayMS >>))]

\* showDialog, with the answer the user gives.
showDialog(d, title, answer) ==
  [d EXCEPT !.outbox = Append(@, Out("dialog", title, << answer >>))]

\* turbowalk over an installed package's directory, with the files (and their
\* hashes) it reports.
turbowalk(d, mod, listing) ==
  [d EXCEPT !.outbox = Append(@, Out("walk", mod, << listing >>))]

emit(d, name, args) ==
  [d EXCEPT !.outbox = Append(@, Out("emit", name, args))]

dispatch(d, name, args) ==
  [d EXCEPT !.outbox = Append(@, Out("dispatch", name, args))]

\* ------------------------------------------------------------------ helpers
\* util.findModByRef(reference, mods): the installed package the reference
\* matches, if any.
findModByRef(ref, installed) == IF ref \in installed THEN ref ELSE Undefined

\* util.testModReference(mod, reference)
testModReference(mod, ref) == mod # Undefined /\ mod = ref

\* Array.prototype.find, as the index of the first match (0: none).
Find(seq, Test(_)) ==
  LET S == {i \in 1..Len(seq) : Test(seq[i])}
  IN IF S = {} THEN 0 ELSE CHOOSE i \in S : \A j \in S : i <= j

RECURSIVE SumSizes(_, _)
SumSizes(entries, i) ==
  IF i > Len(entries) THEN 0
  ELSE SizeOf(entries[i].collectionRule.reference) + SumSizes(entries, i + 1)

\* The entries of the bundle's requires/recommends rules, each with the
\* installed package it resolves to.
getModsEx(d, profile, collection) ==
  LET prof == IF profile = Undefined THEN d.mProfile ELSE profile
      rules == RulesOf(collection)
      relevant == SelectSeq(rules, LAMBDA r : r.type \in {"requires", "recommends"})
  IN IF prof = Undefined THEN << >>
     ELSE [i \in 1..Len(relevant) |->
             [mod |-> findModByRef(relevant[i].reference, mods),
              collectionRule |-> relevant[i]]]

\* An entry counts toward the totals unless its rule is ignored.
isRelevant(entry) == ~entry.collectionRule.ignored

\* The sum of the declared sizes over the relevant entries.
calculateCollectionSize(entries) ==
  SumSizes(SelectSeq(entries, isRelevant), 1)

\* A number of the host language that came out of a division: a fraction
\* num/den (den > 0), NaN (0/0) or Infinity (n/0, n > 0).
Finite(n, m) == [kind |-> "finite", num |-> n, den |-> m]
NaN == [kind |-> "NaN", num |-> 0, den |-> 1]
Infinity == [kind |-> "Infinity", num |-> 0, den |-> 1]

\* The value of an expression, computed once.
Value(v) == CHOOSE x \in {v} : TRUE

\* n / m, where m is None for an undefined divisor.
Divide(n, m) ==
  IF m = None THEN NaN
  ELSE IF m[1] = 0 THEN (IF n = 0 THEN NaN ELSE Infinity)
  ELSE Finite(n, m[1])

Plus(x, y) ==
  IF x.kind = "NaN" \/ y.kind = "NaN" THEN NaN
  ELSE IF x.kind = "Infinity" \/ y.kind = "Infinity" THEN Infinity
  ELSE Finite(x.num * y.den + y.num * x.den, x.den * y.den)

Times(x, k) == IF x.kind = "finite" THEN Finite(x.num * k, x.den) ELSE x

\* downloadProgress as it would be if a package stopped counting once it is
\* installed.
RECURSIVE SumProgressDownloadsOnly(_, _)
SumProgressDownloadsOnly(entries, i) ==
  IF i > Len(entries) THEN 0
  ELSE LET mod == entries[i].mod
           size == IF mod = Undefined THEN 0
                   ELSE IF modState[mod] = "downloading" THEN received[mod]
                   ELSE 0
       IN size + SumProgressDownloadsOnly(entries, i + 1)

RECURSIVE SumProgress(_, _)
SumProgress(entries, i) ==
  IF i > Len(entries) THEN 0
  ELSE LET mod == entries[i].mod
           size == IF mod = Undefined THEN 0
                   ELSE IF modState[mod] = "downloading" THEN received[mod]
                   ELSE SizeOf(mod)
       IN size + SumProgress(entries, i + 1)

installProgress(d, profile, collection) ==
  LET entries == getModsEx(d, profile, collection)
      downloadProgress == SumProgress(entries, 1)
      installedMods ==
        SelectSeq(entries, LAMBDA e : e.mod # Undefined
                                        /\ modState[e.mod] = "installed")
      totalMods == SelectSeq(entries, isRelevant)
      dlPerc == Divide(downloadProgress, d.mTotalSize)
      instPerc == Divide(Len(installedMods), Some(Len(totalMods)))
  IN Times(Value(Plus(Value(dlPerc), Value(instPerc))), 50)

\* The progress notification of the session's bundle.
sendProgress(d, id, progress) ==
  [d EXCEPT !.outbox = Append(@, Out("notify", id,
                                     << "activity", Undefined, progress >>))]

updateProgress(d, profile, collection) ==
  IF collection = Undefined THEN d
  ELSE LET d1 == IF d.mTotalSize = None
                 THEN [d EXCEPT !.mTotalSize =
                         Some(calculateCollectionSize(getModsEx(d, profile, collection)))]
                 ELSE d
       IN sendProgress(d1, INSTALLING_NOTIFICATION_ID \o collection,
                       installProgress(d1, profile, collection))

onStop(d) ==
  LET d1 == IF d.mCollection # Undefined
            THEN dismissNotification(d, INSTALLING_NOTIFICATION_ID \o d.mCollection)
            ELSE d
  IN [d1 EXCEPT !.mCollection = Undefined,
                !.mProfile = Undefined,
                !.mInstalledMods = << >>,
                !.mStep = "prepare"]

\* rule.fileList?.length ?? 0 > 0, which parses as
\* rule.fileList?.length ?? (0 > 0): the length when there is a list.
fileListGuard(rule) ==
  IF rule.fileList = None THEN (0 > 0) ELSE Len(rule.fileList[1]) # 0

\* The loop of startImpl over the bundle's rules; walk is what a walk of an
\* installed package's directory reports, walked the packages walked so far.
\* It leaves the function (returned) at the first requires rule whose package
\* is installed and passes the file check, with the comparison of the
\* installer choices as the result.
RECURSIVE scanRules(_, _, _, _, _)
scanRules(rules, i, required, walked, walk) ==
  IF i > Len(rules)
  THEN [returned |-> FALSE, res |-> "undefined", required |-> required,
        walked |-> walked]
  ELSE LET rule == rules[i]
           modByRef == findModByRef(rule.reference, mods)
       IN IF rule.type # "requires"
            THEN scanRules(rules, i + 1, required, walked, walk)
          ELSE IF modByRef = Undefined
            THEN scanRules(rules, i + 1, Append(required, rule), walked, walk)
          ELSE IF fileListGuard(rule) /\ walk # rule.fileList[1]
            THEN scanRules(rules, i + 1, Append(required, rule),
                           Append(walked, modByRef), walk)
          ELSE [returned |-> TRUE,
                res |-> IF rule.installerChoices = ModChoices(modByRef)
                        THEN "false" ELSE "true",
                required |-> required,
                walked |-> IF fileListGuard(rule)
                           THEN Append(walked, modByRef) ELSE walked]

RECURSIVE walkAll(_, _, _, _)
walkAll(d, walked, i, walk) ==
  IF i > Len(walked) THEN d
  ELSE walkAll(turbowalk(d, walked[i], walk), walked, i + 1, walk)

\* startImpl up to its first await, past the early return: the fields it
\* resets.
startImplHead(d) ==
  [d EXCEPT !.mInstalledMods = << >>,
            !.mInstallingMod = Undefined,
            !.mInstallDone = FALSE,
            !.mStep = "start"]

\* startImpl after its awaits, with the bundle and the profile it read into
\* locals before them; dlg is the answer to the version-mismatch dialog
\* ("none" when the versions agree and no dialog is shown), walk what the
\* directory walk reports.
startImplTail(d1, collection, profile, dlg, walk) ==
  LET dA == IF dlg = "none" THEN d1 ELSE showDialog(d1, "Different version", dlg)
  IN IF dlg = "Cancel"
     THEN [d |-> [dA EXCEPT !.mInstallDone = TRUE], res |-> "false"]
     ELSE
       LET d2 == emit(dA, "view-collection", << collection >>)
           d3 == updateProgress(d2, profile, collection)
           d4 == dismissNotification(d3, "collection-incomplete-" \o collection)
           d5 == dispatch(d4, "setModEnabled", << profile, collection, TRUE >>)
           scan == scanRules(RulesOf(collection), 1, << >>, << >>, walk)
           d6 == walkAll(d5, scan.walked, 1, walk)
       IN IF scan.returned
          THEN [d |-> d6, res |-> scan.res]
          ELSE [d |-> [d6 EXCEPT !.mRequiredMods = scan.required,
                                 !.mInstallDone =
                                   IF Len(scan.required) = 0 THEN FALSE ELSE @],
                res |-> "undefined"]

startImpl(d, dlg, walk) ==
  IF NoArchive(d.mCollection) \/ d.mProfile = Undefined
  THEN [d |-> d, res |-> "false"]
  ELSE startImplTail(startImplHead(d), d.mCollection, d.mProfile, dlg, walk)

startInstall(d, dlg, walk) == startImpl(d, dlg, walk)

\* begin as it would be if it announced an empty list instead of the bundle.
beginWrongList(d) ==
  IF d.mCollection = Undefined \/ d.mProfile = Undefined
  THEN d
  ELSE [emit(d, "install-dependencies",
             << d.mProfile, GameId, << >>, TRUE >>)
          EXCEPT !.mStep = "installing"]

\* begin as it would be if it did not skip the disclaimer.
beginToDisclaimer(d) ==
  IF d.mCollection = Undefined \/ d.mProfile = Undefined
  THEN d
  ELSE [emit(d, "install-dependencies",
             << d.mProfile, GameId, << d.mCollection >>, TRUE >>)
          EXCEPT !.mStep = "disclaimer"]

begin(d) ==
  IF d.mCollection = Undefined \/ d.mProfile = Undefined
  THEN d
  ELSE [emit(d, "install-dependencies",
             << d.mProfile, GameId, << d.mCollection >>, TRUE >>)
          EXCEPT !.mStep = "installing"]

closeDisclaimers(d) == [d EXCEPT !.mStep = "installing"]

finishInstalling(d) == [d EXCEPT !.mStep = "review"]

close(d) ==
  triggerUpdate([d EXCEPT !.mCollection = Undefined, !.mInstallDone = TRUE])

canContinue(d) ==
  IF d.mCollection = Undefined THEN FALSE
  ELSE IF d.mStep = "installing" THEN d.mInstallDone
  ELSE IF d.mStep = "disclaimer" THEN (Len(d.mInstalledMods) > 0) \/ d.mInstallDone
  ELSE TRUE

\* ------------------------------------------------------------------ methods
Dialog == {"none", "Cancel", "Continue"}

\* Local paths of the downloads a will-install-mod event can name.
LocalPaths == {"A.zip"}

\* initCollectionInfo only refreshes the cached descriptive metadata, which
\* no field modelled here depends on.
initCollectionInfo(d) == d

\* start, past its two early returns.
startSession(d, profile, collection, dlg, walk) ==
  LET d1 == [d EXCEPT !.mProfile = profile, !.mCollection = collection]
      d2 == [d1 EXCEPT !.mTotalSize =
               Some(calculateCollectionSize(getModsEx(d1, profile, collection)))]
      r == startInstall(d2, dlg, walk)
  IN triggerUpdate(initCollectionInfo(r.d))

\* start as it would be without the "already installing" check.
startUnguarded(d, profile, collection, dlg, walk) ==
  IF NoArchive(collection) THEN d
  ELSE startSession(d, profile, collection, dlg, walk)

start(d, profile, collection, dlg, walk) ==
  IF NoArchive(collection) THEN d
  ELSE IF ~d.mInstallDone /\ d.mCollection # Undefined
    THEN sendNotification(d, "warning", "Already installing a collection", "5000")
  ELSE startSession(d, profile, collection, dlg, walk)

\* query as it would be without the "already installing" check.
queryUnguarded(d, profile, collection) ==
  IF NoArchive(collection) THEN d
  ELSE
    triggerUpdate(initCollectionInfo(
      [d EXCEPT !.mProfile = profile, !.mCollection = collection,
                !.mStep = "query"]))

query(d, profile, collection) ==
  IF NoArchive(collection) THEN d
  ELSE IF ~d.mInstallDone /\ d.mCollection # Undefined
    THEN sendNotification(d, "warning", "Already installing a collection",
                          Undefined)
  ELSE
    triggerUpdate(initCollectionInfo(
      [d EXCEPT !.mProfile = profile, !.mCollection = collection,
                !.mStep = "query"]))

cancel(d) == triggerUpdate(onStop(d))

\* this.mCollection.id throws when there is no session: nothing changes.
installRecommended(d) ==
  IF d.mCollection = Undefined THEN d
  ELSE triggerUpdate(
         [emit(d, "install-from-dependencies", << d.mCollection, TRUE >>)
            EXCEPT !.mStep = "recommendations"])

\* The advance action of the phase: steps[this.mStep]?.()
advance(d, dlg, walk) ==
  CASE d.mStep = "query" -> startInstall(d, dlg, walk)
    [] d.mStep = "start" -> [d |-> begin(d), res |-> "undefined"]
    [] d.mStep = "disclaimer" -> [d |-> closeDisclaimers(d), res |-> "undefined"]
    [] d.mStep \in {"installing", "recommendations"} ->
         [d |-> finishInstalling(d), res |-> "undefined"]
    [] d.mStep = "review" -> [d |-> close(d), res |-> "undefined"]
    [] OTHER -> [d |-> d, res |-> "undefined"]

\* continue as it would be without the canContinue() half of its guard.
continueUnguarded(d, dlg, walk) ==
  IF ~NoArchive(d.mCollection)
  THEN LET r == advance(initCollectionInfo(d), dlg, walk)
       IN IF r.res # "false" THEN triggerUpdate(r.d) ELSE r.d
  ELSE d

continue(d, dlg, walk) ==
  IF canContinue(d) /\ ~NoArchive(d.mCollection)
  THEN LET r == advance(initCollectionInfo(d), dlg, walk)
       IN IF r.res # "false" THEN triggerUpdate(r.d) ELSE r.d
  ELSE d

\* ------------------------------------------------------------------ events
willInstallMod(d, archive, known) ==
  IF known THEN [d EXCEPT !.mInstallingMod = archive] ELSE d

\* mod is the package of the store the event names, Undefined when the store
\* has no such package.
didInstallMod(d, mod) ==
  LET i == Find(d.mRequiredMods, LAMBDA r : testModReference(mod, r.reference))
      d1 == IF mod # Undefined /\ i # 0
            THEN LET d2 == [d EXCEPT !.mInstalledMods = Append(@, mod)]
                 IN IF d.mCollection # Undefined
                    THEN updateProgress(d2, d.mProfile, d.mCollection)
                    ELSE d2
            ELSE d
  IN triggerUpdate(d1)

didFinishDownload(d) == updateProgress(d, d.mProfile, d.mCollection)

\* The will-install-dependencies handler as it would be if it adopted the
\* bundle whether or not a session is owned.
willInstallDependenciesAlways(d, modId, recommendations) ==
  IF ModType(modId) = MOD_TYPE /\ recommendations
  THEN [d EXCEPT !.mCollection = modId, !.mStep = "installing"]
  ELSE d

willInstallDependencies(d, modId, recommendations) ==
  IF d.mCollection = Undefined /\ ModType(modId) = MOD_TYPE /\ recommendations
  THEN [d EXCEPT !.mCollection = modId, !.mStep = "installing"]
  ELSE d

Incomplete(collection, types) ==
  Find(RulesOf(collection),
       LAMBDA rule : /\ rule.type \in types
                     /\ rule.ignored # TRUE
                     /\ findModByRef(rule.reference, mods) = Undefined)

\* onDidInstallDependencies as it would be if a required pass with leftovers
\* advanced to review like a complete one.
onDidInstallDependenciesAdvancing(d, modId, recommendations) ==
  IF d.mCollection # Undefined /\ modId = d.mCollection
  THEN
    IF ~recommendations
    THEN triggerUpdate(
           dismissNotification([initCollectionInfo(d) EXCEPT !.mStep = "review"],
                               INSTALLING_NOTIFICATION_ID \o modId))
    ELSE LET d1 == dismissNotification(d, INSTALLING_NOTIFICATION_ID \o modId)
         IN IF Incomplete(d.mCollection, {"requires", "recommends"}) = 0
            THEN [initCollectionInfo(d1) EXCEPT !.mStep = "review"]
            ELSE onStop(d1)
  ELSE d

\* onDidInstallDependencies as it would be if an optional pass with leftovers
\* kept the session and only counted the requires rules.
onDidInstallDependenciesKeeping(d, modId, recommendations) ==
  IF d.mCollection # Undefined /\ modId = d.mCollection
  THEN
    IF ~recommendations
    THEN LET d1 == IF Incomplete(d.mCollection, {"requires"}) = 0
                   THEN [initCollectionInfo(d) EXCEPT !.mStep = "review"]
                   ELSE [d EXCEPT !.mInstallDone = TRUE,
                                  !.mInstallingMod = Undefined]
         IN triggerUpdate(
              dismissNotification(d1, INSTALLING_NOTIFICATION_ID \o modId))
    ELSE LET d1 == dismissNotification(d, INSTALLING_NOTIFICATION_ID \o modId)
         IN IF Incomplete(d.mCollection, {"requires"}) = 0
            THEN [initCollectionInfo(d1) EXCEPT !.mStep = "review"]
            ELSE d1
  ELSE d

\* onDidInstallDependencies up to "await this.initCollectionInfo()": awaits
\* tells whether it got there.
onDidInstallDependenciesHead(d, modId, recommendations) ==
  IF d.mCollection # Undefined /\ modId = d.mCollection
  THEN
    IF ~recommendations
    THEN IF Incomplete(d.mCollection, {"requires"}) = 0
         THEN [d |-> d, awaits |-> TRUE]
         ELSE [d |-> triggerUpdate(
                       dismissNotification(
                         [d EXCEPT !.mInstallDone = TRUE,
                                   !.mInstallingMod = Undefined],
                         INSTALLING_NOTIFICATION_ID \o modId)),
               awaits |-> FALSE]
    ELSE LET d1 == dismissNotification(d, INSTALLING_NOTIFICATION_ID \o modId)
         IN IF Incomplete(d.mCollection, {"requires", "recommends"}) = 0
            THEN [d |-> d1, awaits |-> TRUE]
            ELSE [d |-> onStop(d1), awaits |-> FALSE]
  ELSE [d |-> d, awaits |-> FALSE]

\* onDidInstallDependencies after that await.
onDidInstallDependenciesTail(d, modId, recommendations) ==
  LET d1 == [d EXCEPT !.mStep = "review"]
  IN IF ~recommendations
     THEN triggerUpdate(dismissNotification(d1, INSTALLING_NOTIFICATION_ID \o modId))
     ELSE d1

onDidInstallDependencies(d, modId, recommendations) ==
  LET h == onDidInstallDependenciesHead(d, modId, recommendations)
  IN IF h.awaits
     THEN onDidInstallDependenciesTail(initCollectionInfo(h.d), modId, recommendations)
     ELSE h.d

\* ------------------------------------------------------------------ actions
\* The store and the downloads when every package there is installed, its
\* archive fully received.
StateOf(ms) == [p \in Packages |-> IF p \in ms THEN "installed" ELSE "none"]
ReceivedOf(ms) == [p \in Packages |-> IF p \in ms THEN SizeOf(p) ELSE 0]

\* No preparation handed in and no call made: mPrepare = Promise.resolve().
PrepIds == {"f1", "f2"}
CallIds == {"c1", "c2"}

\* A dialog result: the button and the input (None: undefined; otherwise the
\* checkboxes in order, each with its id and value).
DialogResult(action, input) == [action |-> action, input |-> input]
NoResult == DialogResult("none", None)

NoRun(store) ==
  [pc |-> "idle", mods |-> store, oldModId |-> Undefined, oldRules |-> << >>,
   newModId |-> Undefined, obsolete |-> << >>,
   result |-> NoResult, reviewResult |-> NoResult,
   ops |-> [remove |-> << >>, keep |-> << >>],
   err |-> "none", outcome |-> "pending"]

\* No startInstall has run yet.
NoSuppression ==
  /\ mOnStop = 0
  /\ suppressed = {}

PrepareInit ==
  /\ upd = NoRun(<< >>)
  /\ NoSuppression
  /\ mPrepare = {}
  /\ preps = [f \in PrepIds |-> [state |-> "none", after |-> {}]]
  /\ calls = [c \in CallIds |->
               [state |-> "none", kind |-> "none", collection |-> Undefined,
                waitsOn |-> {}, before |-> {}, early |-> FALSE]]

Init ==
  /\ mProfile = Undefined
  /\ mCollection = Undefined
  /\ mStep = "prepare"
  /\ mInstalledMods = << >>
  /\ mRequiredMods = << >>
  /\ mInstallingMod = Undefined
  /\ mInstallDone = FALSE
  /\ mTotalSize = None
  /\ mods \in SUBSET Installable
  /\ modState = StateOf(mods)
  /\ received = ReceivedOf(mods)
  /\ PrepareInit
  /\ outbox = << >>
  /\ lastCall = "none"
  /\ lastArgs = << >>

\* Public methods.  lastCall names the method or the host event of the last
\* step.
\* The inputs a call reads only when it gets as far as startImpl's dialog
\* and file check are drawn only then.
ReachesStartImpl(d, c) ==
  ~NoArchive(c) /\ (d.mInstallDone \/ d.mCollection = Undefined)

Walks(c, dlg, walk) ==
  /\ dlg # "Cancel"
  /\ scanRules(RulesOf(c), 1, << >>, << >>, walk).walked # << >>

InputsRead(reaches, c, dlg, walk) ==
  IF reaches THEN walk = FileListA \/ Walks(c, dlg, walk)
  ELSE dlg = "none" /\ walk = FileListA

StartOp(p, c, dlg, walk) ==
  /\ InputsRead(ReachesStartImpl(Self, c), c, dlg, walk)
  /\ \E d \in {start(Self, p, c, dlg, walk)} : Commit(d)
  /\ lastCall' = "start"
  /\ lastArgs' = << >>
  /\ UNCHANGED prepVars
  /\ UNCHANGED storeVars

Start ==
  \E p \in Profiles, c \in Bundles \cup {Undefined}, dlg \in Dialog,
     walk \in DiskVariants :
    StartOp(p, c, dlg, walk)

QueryOp(p, c) ==
  /\ \E d \in {query(Self, p, c)} : Commit(d)
  /\ lastCall' = "query"
  /\ lastArgs' = << p, c >>
  /\ UNCHANGED prepVars
  /\ UNCHANGED storeVars

Query == \E p \in Profiles, c \in Bundles \cup {Undefined} : QueryOp(p, c)

ContinueOp(dlg, walk) ==
  /\ InputsRead(mStep = "query" /\ canContinue(Self) /\ mProfile # Undefined,
                mCollection, dlg, walk)
  /\ \E d \in {continue(Self, dlg, walk)} : Commit(d)
  /\ lastCall' = "continue"
  /\ lastArgs' = << >>
  /\ UNCHANGED prepVars
  /\ UNCHANGED storeVars

Continue == \E dlg \in Dialog, walk \in DiskVariants : ContinueOp(dlg, walk)

Cancel ==
  /\ \E d \in {cancel(Self)} : Commit(d)
  /\ lastCall' = "cancel"
  /\ lastArgs' = << >>
  /\ UNCHANGED prepVars
  /\ UNCHANGED storeVars

InstallRecommended ==
  /\ \E d \in {installRecommended(Self)} : Commit(d)
  /\ lastCall' = "installRecommended"
  /\ lastArgs' = << >>
  /\ UNCHANGED prepVars
  /\ UNCHANGED storeVars

\* Host events.
WillInstallMod ==
  \E a \in LocalPaths, known \in BOOLEAN :
    /\ \E d \in {willInstallMod(Self, a, known)} : Commit(d)
    /\ lastCall' = "will-install-mod"
    /\ lastArgs' = << >>
    /\ UNCHANGED prepVars
    /\ UNCHANGED storeVars

\* The install subsystem puts package p into the store, installed.
InstallMod ==
  \E p \in Installable \ mods :
    /\ mods' = mods \cup {p}
    /\ modState' = StateOf(mods')
    /\ received' = ReceivedOf(mods')
    /\ \E d \in {Self} : Commit(d)
    /\ lastCall' = "install-mod"
    /\ lastArgs' = << >>
    /\ UNCHANGED prepVars

\* The did-install-mod event for package p; the handler reads the store, which
\* may hold no such package.
DidInstallMod ==
  \E p \in Installable :
    /\ \E d \in {didInstallMod(Self, IF p \in mods THEN p ELSE Undefined)} :
         /\ Len(d.mInstalledMods) <= MaxInstalled
         /\ Commit(d)
    /\ lastCall' = "did-install-mod"
    /\ lastArgs' = << >>
    /\ UNCHANGED prepVars
    /\ UNCHANGED storeVars

\* The user removes a package.
RemoveMod ==
  \E p \in mods :
    /\ mods' = mods \ {p}
    /\ modState' = StateOf(mods')
    /\ received' = ReceivedOf(mods')
    /\ \E d \in {Self} : Commit(d)
    /\ lastCall' = "remove-mod"
    /\ lastArgs' = << >>
    /\ UNCHANGED prepVars

DidFinishDownload ==
  /\ \E d \in {didFinishDownload(Self)} : Commit(d)
  /\ lastCall' = "did-finish-download"
  /\ lastArgs' = << >>
  /\ UNCHANGED prepVars
  /\ UNCHANGED storeVars

\* The mods a dependency-install event can name: the bundles and a package.
EventMods == Bundles \cup {"A"}

WillInstallDependencies ==
  \E m \in EventMods, rec \in BOOLEAN :
    /\ \E d \in {willInstallDependencies(Self, m, rec)} : Commit(d)
    /\ lastCall' = "will-install-dependencies"
    /\ lastArgs' = << m, rec >>
    /\ UNCHANGED prepVars
    /\ UNCHANGED storeVars

DidInstallDependenciesOp(m, rec) ==
  /\ \E d \in {onDidInstallDependencies(Self, m, rec)} : Commit(d)
  /\ lastCall' = "did-install-dependencies"
  /\ lastArgs' = << m, rec >>
  /\ UNCHANGED prepVars
  /\ UNCHANGED storeVars

DidInstallDependencies ==
  \E m \in EventMods, rec \in BOOLEAN : DidInstallDependenciesOp(m, rec)

Next ==
  \/ Start
  \/ Query
  \/ Continue
  \/ Cancel
  \/ InstallRecommended
  \/ WillInstallMod
  \/ InstallMod
  \/ DidInstallMod
  \/ RemoveMod
  \/ DidFinishDownload
  \/ WillInstallDependencies
  \/ DidInstallDependencies

Spec == Init /\ [][Next]_vars

\* ------------------------------------------------------------------ downloads
\* A second specification, in which packages pass through the download
\* subsystem on their way into the store: pending, downloading with the bytes
\* received growing, installed.
DownloadStep == 10

BeginDownload ==
  \E p \in Packages :
    /\ modState[p] = "none"
    /\ modState' = [modState EXCEPT ![p] = "downloading"]
    /\ received' = [received EXCEPT ![p] = 0]
    /\ mods' = mods \cup {p}
    /\ \E d \in {Self} : Commit(d)
    /\ lastCall' = "begin-download"
    /\ lastArgs' = << >>
    /\ UNCHANGED prepVars

ReceiveBytes ==
  \E p \in Packages :
    /\ modState[p] = "downloading"
    /\ received[p] + DownloadStep <= SizeOf(p)
    /\ received' = [received EXCEPT ![p] = @ + DownloadStep]
    /\ UNCHANGED << mods, modState >>
    /\ \E d \in {Self} : Commit(d)
    /\ lastCall' = "receive-bytes"
    /\ lastArgs' = << >>
    /\ UNCHANGED prepVars

FinishInstall ==
  \E p \in Packages :
    /\ modState[p] = "downloading"
    /\ received[p] = SizeOf(p)
    /\ modState' = [modState EXCEPT ![p] = "installed"]
    /\ UNCHANGED << mods, received >>
    /\ \E d \in {Self} : Commit(d)
    /\ lastCall' = "finish-install"
    /\ lastArgs' = << >>
    /\ UNCHANGED prepVars

\* The session is begun once, with start(), and the download and install
\* events reach the driver as the packages move.
StartOnce ==
  /\ mCollection = Undefined
  /\ Start

NextProgress ==
  \/ StartOnce
  \/ BeginDownload
  \/ ReceiveBytes
  \/ FinishInstall
  \/ DidFinishDownload
  \/ DidInstallMod

SpecProgress == Init /\ [][NextProgress]_vars

\* ------------------------------------------------------------------ matchRepo
\* An id as the catalog or a rule carries it: absent, a number or a string;
\* text is what toString() gives.
IdValue(kind, text) == [kind |-> kind, text |-> text]
UndefinedId == IdValue("undefined", "")
IdValues ==
  {UndefinedId, IdValue("number", "1"), IdValue("string", "1"),
   IdValue("number", "2"), IdValue("string", "2")}

\* rule.reference.repo: None, or Some of the ids.
Repos == {None} \cup {Some([modId |-> m, fileId |-> f]) : m, f \in IdValues}

\* A file of the revision's modFiles: null, undefined, or an object.
ModFile(kind, m, f) == [kind |-> kind, modId |-> m, fileId |-> f]
ModFiles ==
  {ModFile("null", UndefinedId, UndefinedId),
   ModFile("undefined", UndefinedId, UndefinedId)}
    \cup {ModFile("object", m, f) : m, f \in IdValues}

\* !x for an id: true when it is absent.
Falsy(id) == id.kind = "undefined" \/ id.text = ""

\* matchRepo(rule, ref), with its outcome: "true", "false", or "throws" when
\* evaluating it raises a TypeError.
matchRepo(repo, ref) ==
  IF ref.kind = "null" THEN "false"
  ELSE
    LET modId == IF repo = None THEN UndefinedId ELSE repo[1].modId
        fileId == IF repo = None THEN UndefinedId ELSE repo[1].fileId
    IN IF modId.kind = "undefined" \/ fileId.kind = "undefined" THEN "false"
       ELSE IF ref.kind = "undefined" THEN "throws"
       ELSE IF Falsy(ref.modId) \/ Falsy(ref.fileId) THEN "false"
       ELSE IF modId.text = ref.modId.text /\ fileId.text = ref.fileId.text
         THEN "true"
       ELSE "false"

\* A third specification: matchRepo applied to every rule and file of the
\* domains above.  lastArgs holds the arguments, outbox what the call gave.
InitMatch ==
  /\ mProfile = Undefined
  /\ mCollection = Undefined
  /\ mStep = "prepare"
  /\ mInstalledMods = << >>
  /\ mRequiredMods = << >>
  /\ mInstallingMod = Undefined
  /\ mInstallDone = FALSE
  /\ mTotalSize = None
  /\ mods = {}
  /\ modState = StateOf(mods)
  /\ received = ReceivedOf(mods)
  /\ PrepareInit
  /\ outbox = << >>
  /\ lastCall = "none"
  /\ lastArgs \in Repos \X ModFiles

MatchRepo ==
  /\ lastCall = "none"
  /\ lastCall' = "matchRepo"
  /\ outbox' = << Out("return", "matchRepo",
                      << matchRepo(lastArgs[1], lastArgs[2]) >>) >>
  /\ UNCHANGED << driverVars, storeVars, prepVars, lastArgs >>

NextMatch == MatchRepo

SpecMatch == InitMatch /\ [][NextMatch]_vars

\* ------------------------------------------------------------------ prepare
\* A fourth specification: prepare(), query() and start() with the await at
\* the head of query() and start() as a step of its own.  A promise is the set
\* of preparations that have to be done for it to be resolved; a preparation
\* handed to prepare() runs once the promise it was chained to is resolved.
Resolved(promise) == \A f \in promise : preps[f].state = "done"

\* prepare(func): this.mPrepare = this.mPrepare.then(func)
Prepare ==
  \E f \in PrepIds :
    /\ preps[f].state = "none"
    /\ preps' = [preps EXCEPT ![f] = [state |-> "queued", after |-> mPrepare]]
    /\ mPrepare' = mPrepare \cup {f}
    /\ UNCHANGED << calls, upd, suppressVars >>
    /\ \E d \in {Self} : Commit(d)
    /\ lastCall' = "prepare"
    /\ lastArgs' = << >>
    /\ UNCHANGED storeVars

\* The promise a preparation was chained to is resolved: the preparation runs.
RunPreparation ==
  \E f \in PrepIds :
    /\ preps[f].state = "queued"
    /\ Resolved(preps[f].after)
    /\ preps' = [preps EXCEPT ![f].state = "running"]
    /\ UNCHANGED << mPrepare, calls, upd, suppressVars >>
    /\ \E d \in {Self} : Commit(d)
    /\ lastCall' = "run-preparation"
    /\ lastArgs' = << >>
    /\ UNCHANGED storeVars

\* The promise a preparation returned is resolved.
FinishPreparation ==
  \E f \in PrepIds :
    /\ preps[f].state = "running"
    /\ preps' = [preps EXCEPT ![f].state = "done"]
    /\ UNCHANGED << mPrepare, calls, upd, suppressVars >>
    /\ \E d \in {Self} : Commit(d)
    /\ lastCall' = "finish-preparation"
    /\ lastArgs' = << >>
    /\ UNCHANGED storeVars

\* query() or start() is called and reaches "await this.mPrepare"; before
\* records the preparations handed in so far.
Await(c, kind, collection) ==
  /\ calls[c].state = "none"
  /\ calls' = [calls EXCEPT ![c] =
                 [state |-> "waiting", kind |-> kind, collection |-> collection,
                  waitsOn |-> mPrepare,
                  before |-> {f \in PrepIds : preps[f].state # "none"},
                  early |-> FALSE]]
  /\ UNCHANGED << mPrepare, preps, upd, suppressVars >>
  /\ \E d \in {Self} : Commit(d)
  /\ lastCall' = "await"
  /\ lastArgs' = << >>
  /\ UNCHANGED storeVars

CallQuery == \E c \in CallIds, b \in Bundles : Await(c, "query", b)

CallStart == \E c \in CallIds, b \in Bundles : Await(c, "start", b)

\* The awaited promise is resolved: the call goes on, resets the chain and
\* runs its body.  early records whether a preparation handed in before the
\* call is not done yet at this point.
ResumeCall ==
  \E c \in CallIds :
    /\ calls[c].state = "waiting"
    /\ Resolved(calls[c].waitsOn)
    /\ mPrepare' = {}
    /\ calls' = [calls EXCEPT
                   ![c].state = "ran",
                   ![c].early = \E f \in calls[c].before : preps[f].state # "done"]
    /\ UNCHANGED << preps, upd, suppressVars >>
    /\ IF calls[c].kind = "query"
       THEN /\ \E d \in {query(Self, "P1", calls[c].collection)} : Commit(d)
            /\ lastCall' = "query"
            /\ lastArgs' = << "P1", calls[c].collection >>
       ELSE /\ \E d \in {start(Self, "P1", calls[c].collection, "none", FileListA)} :
                 Commit(d)
            /\ lastCall' = "start"
            /\ lastArgs' = << >>
    /\ UNCHANGED storeVars

NextPrepare ==
  \/ Prepare
  \/ RunPreparation
  \/ FinishPreparation
  \/ CallQuery
  \/ CallStart
  \/ ResumeCall

SpecPrepare == Init /\ [][NextPrepare]_vars

\* ------------------------------------------------------------------ reading the outbox
Signals(box) ==
  SelectSeq(box, LAMBDA o : o.kind = "emit" /\ o.name = "install-dependencies")

Updates(box) == Len(SelectSeq(box, LAMBDA o : o.kind = "update"))

Dismissed(box, id) ==
  \E i \in DOMAIN box : box[i].kind = "dismiss" /\ box[i].name = id

Warned(box) ==
  \E i \in DOMAIN box :
    box[i].kind = "notify" /\ box[i].name = "Already installing a collection"

DialogCancelled(box) ==
  \E i \in DOMAIN box : box[i].kind = "dialog" /\ box[i].arg = << "Cancel" >>

Range(seq) == {seq[i] : i \in DOMAIN seq}

\* ------------------------------------------------------------------ reconciliation
\* A fifth specification: collectionUpdate (eventHandlers.ts), the workflow
\* that installs a new revision of a bundle and removes what only the old one
\* needed.  It is handed to the driver as a preparation; every await of it is
\* a step.  upd holds the run: its position, its locals and the packages of
\* the store as it reads them.  In this specification outbox keeps everything
\* the run sent out, in order.

\* A value of the host language handed on where a package id is expected:
\* the id string, or the package object itself.
IdString(id) == [type |-> "string", id |-> id]
ModObject(id) == [type |-> "object", id |-> id]

OldModId == "X"
NewModId == "N"
UpdPackages == {"X", "Y", "Z", "W"}
DependencyTypes == {"requires", "recommends"}

Dep(t, p) == Rule(t, p, None, "none")

\* The rules of the old revision, and those the new revision may come with.
OldRules == << Dep("requires", "Y"), Dep("recommends", "Z"), Dep("conflicts", "W") >>
NewRuleSets ==
  { << >>,
    << Dep("requires", "Y") >>,
    << Dep("recommends", "Z") >>,
    << Dep("requires", "Y"), Dep("requires", "Z") >>,
    << Dep("conflicts", "Y") >> }

\* A package of the store: attributes.installedAsDependency and rules.
Mod(dep, rules) == [installedAsDependency |-> dep, rules |-> rules]

\* The stores the workflow can find: the old bundle X; Y and Z absent,
\* installed by the user or installed as dependencies, Z with or without a
\* rule on Y; W absent or installed by the user with no rule, a requires or a
\* conflicts rule on Y.
HowInstalled == {"absent", "manual", "dependency"}
WVariants == {"absent", "plain", "requiresY", "conflictsY"}

StoreOf(y, z, zy, w) ==
  LET all == [p \in UpdPackages |->
                CASE p = "X" -> Mod(FALSE, OldRules)
                  [] p = "Y" -> Mod(y = "dependency", << >>)
                  [] p = "Z" -> Mod(z = "dependency",
                                    IF zy THEN << Dep("requires", "Y") >> ELSE << >>)
                  [] OTHER -> Mod(FALSE,
                                  CASE w = "requiresY" -> << Dep("requires", "Y") >>
                                    [] w = "conflictsY" -> << Dep("conflicts", "Y") >>
                                    [] OTHER -> << >>)]
      present == {"X"} \cup (IF y # "absent" THEN {"Y"} ELSE {})
                       \cup (IF z # "absent" THEN {"Z"} ELSE {})
                       \cup (IF w # "absent" THEN {"W"} ELSE {})
  IN [p \in present |-> all[p]]

Stores ==
  { StoreOf(y, z, zy, w) : y \in HowInstalled, z \in HowInstalled,
                           zy \in BOOLEAN, w \in WVariants }

Includes(seq, x) == \E i \in DOMAIN seq : seq[i] = x

\* The packages the old revision's dependency rules resolve to that were
\* installed as dependencies, in the order of the rules.
candidates(oldRules, store) ==
  LET deps == SelectSeq(oldRules, LAMBDA rule : rule.type \in DependencyTypes)
      found == [i \in DOMAIN deps |-> findModByRef(deps[i].reference, DOMAIN store)]
  IN SelectSeq(found, LAMBDA mod : /\ mod # Undefined
                                   /\ store[mod].installedAsDependency = TRUE)

notCandidates(cands, store, oldModId, newModId) ==
  { mod \in DOMAIN store : /\ ~Includes(cands, mod)
                           /\ mod \notin {oldModId, newModId} }

references(rules, mod) ==
  \E i \in DOMAIN rules : /\ rules[i].type \in DependencyTypes
                          /\ testModReference(mod, rules[i].reference)

\* obsolete as it would be if the rules of the new revision were not looked at.
obsoleteByOthersOnly(cands, others, store, newModId) ==
  SelectSeq(cands, LAMBDA mod : ~\E other \in others :
                                    references(store[other].rules, mod))

obsolete(cands, others, store, newModId) ==
  SelectSeq(SelectSeq(cands, LAMBDA mod : ~references(store[newModId].rules, mod)),
            LAMBDA mod : ~\E other \in others :
                             references(store[other].rules, mod))

Objects(ids) == [i \in DOMAIN ids |-> ModObject(ids[i])]

\* Object.keys(input).reduce(...): the keys with a true value go to remove,
\* the others to keep.
reduceInput(input) ==
  LET on == SelectSeq(input, LAMBDA box : box.value)
      off == SelectSeq(input, LAMBDA box : ~box.value)
  IN [remove |-> [i \in DOMAIN on |-> IdString(on[i].id)],
      keep |-> [i \in DOMAIN off |-> IdString(off[i].id)]]

\* The branch on the first dialog's answer as it would be if 'Keep All'
\* removed the packages.
afterDialogRemoving(result, list) ==
  CASE result.action = "Keep All" ->
         [review |-> FALSE, ops |-> [remove |-> Objects(list), keep |-> << >>]]
    [] result.action = "Remove All" ->
         [review |-> FALSE, ops |-> [remove |-> Objects(list), keep |-> << >>]]
    [] OTHER -> [review |-> TRUE, ops |-> [remove |-> << >>, keep |-> << >>]]

\* The branch on the first dialog's answer: the operations, or the review.
afterDialog(result, list) ==
  CASE result.action = "Keep All" ->
         [review |-> FALSE, ops |-> [remove |-> << >>, keep |-> Objects(list)]]
    [] result.action = "Remove All" ->
         [review |-> FALSE, ops |-> [remove |-> Objects(list), keep |-> << >>]]
    [] OTHER -> [review |-> TRUE, ops |-> [remove |-> << >>, keep |-> << >>]]

\* The branch on the review dialog's answer.  The operations are read from
\* the input of the first dialog (result.input), whose keys Object.keys
\* cannot list when it is undefined.
afterReview(result, reviewResult, list) ==
  IF reviewResult.action = "Keep All"
  THEN [throws |-> FALSE, ops |-> [remove |-> << >>, keep |-> Objects(list)]]
  ELSE IF result.input = None
  THEN [throws |-> TRUE, ops |-> [remove |-> << >>, keep |-> << >>]]
  ELSE [throws |-> FALSE, ops |-> reduceInput(result.input[1])]

showErrorNotification(box, title, err) ==
  Append(box, Out("notify", "error", << title, err >>))

\* The catch clause of collectionUpdate as it would be without the test for a
\* cancellation.
catchAll(err, box) ==
  showErrorNotification(box, "Failed to download collection", err)

\* The catch clause of collectionUpdate.
catch(err, box) ==
  IF err # "UserCanceled"
  THEN showErrorNotification(box, "Failed to download collection", err)
  ELSE box

\* The catch handler onCollectionUpdate chains to the promise of
\* collectionUpdate.
onRejected(outcome, box) ==
  IF outcome = "rejected"
  THEN showErrorNotification(box, "Failed to update collection", "error")
  ELSE box

\* setModAttribute(gameId, modId, 'installedAsDependency', false) for every
\* entry of keep: the attribute of a package changes when the entry is its id.
\* (An entry that is an object makes the reducer write under the object's
\* string form, which is no package's id.)
markKept(store, keep) ==
  [p \in DOMAIN store |->
     IF Includes(keep, IdString(p))
     THEN [store[p] EXCEPT !.installedAsDependency = FALSE]
     ELSE store[p]]

RECURSIVE batchDispatch(_, _, _)
batchDispatch(box, keep, i) ==
  IF i > Len(keep) THEN box
  ELSE batchDispatch(
         Append(box, Out("dispatch", "setModAttribute",
                         << GameId, keep[i], "installedAsDependency", FALSE >>)),
         keep, i + 1)

\* The run ends: the promise of collectionUpdate settles and the preparation
\* is done.
Settle(u, err, box) ==
  /\ upd' = [u EXCEPT !.pc = "done", !.err = err, !.outcome = "resolved"]
  /\ outbox' = onRejected("resolved", IF err = "none" THEN box ELSE catch(err, box))
  /\ preps' = [preps EXCEPT !["f1"].state = "done"]

\* The run goes on to its next await.
Goto(u, pc, box) ==
  /\ upd' = [u EXCEPT !.pc = pc]
  /\ outbox' = box
  /\ UNCHANGED preps

UpdFrame ==
  /\ UNCHANGED << driverVars, storeVars, mPrepare, calls, suppressVars >>
  /\ lastArgs' = << >>

InitUpdate ==
  /\ mProfile = Undefined
  /\ mCollection = Undefined
  /\ mStep = "prepare"
  /\ mInstalledMods = << >>
  /\ mRequiredMods = << >>
  /\ mInstallingMod = Undefined
  /\ mInstallDone = FALSE
  /\ mTotalSize = None
  /\ mods = {}
  /\ modState = StateOf(mods)
  /\ received = ReceivedOf(mods)
  /\ mPrepare = {}
  /\ preps = [f \in PrepIds |-> [state |-> "none", after |-> {}]]
  /\ calls = [c \in CallIds |->
               [state |-> "none", kind |-> "none", collection |-> Undefined,
                waitsOn |-> {}, before |-> {}, early |-> FALSE]]
  /\ upd \in {NoRun(store) : store \in Stores}
  /\ NoSuppression
  /\ outbox = << >>
  /\ lastCall = "none"
  /\ lastArgs = << >>

\* The 'collection-update' event: nothing for another source or without a
\* revision number; otherwise collectionUpdate is handed to driver.prepare.
OnCollectionUpdate ==
  \E source \in {"nexus", "other"}, revisionNumber \in {Undefined, "2"},
     oldModId \in {OldModId, "Q"} :
    /\ upd.pc = "idle"
    /\ lastCall' = "collection-update"
    /\ lastArgs' = << source, revisionNumber, oldModId >>
    /\ UNCHANGED << driverVars, storeVars, calls, outbox, suppressVars >>
    /\ IF source # "nexus" \/ revisionNumber = Undefined
       THEN UNCHANGED << mPrepare, preps, upd >>
       ELSE /\ preps' = [preps EXCEPT !["f1"] = [state |-> "queued", after |-> mPrepare]]
            /\ mPrepare' = mPrepare \cup {"f1"}
            /\ upd' = [upd EXCEPT !.pc = "queued", !.oldModId = oldModId]

\* The chain reaches the preparation: collectionUpdate asks for the revision.
RunUpdate ==
  /\ upd.pc = "queued"
  /\ Resolved(preps["f1"].after)
  /\ upd' = [upd EXCEPT !.pc = "revision"]
  /\ preps' = [preps EXCEPT !["f1"].state = "running"]
  /\ outbox' = Append(outbox, Out("emit", "get-nexus-collection-revision", << >>))
  /\ lastCall' = "run-update"
  /\ UpdFrame

\* The revision is there, is undefined or is of another collection, or the
\* request failed.
\* The two checks on the revision received (lines 13-19) as they would be
\* without the comparison of the slugs.
invalidRevisionMissingOnly(latest) == latest = "undefined"

\* latest === undefined, or collectionSlug !== latest.collection.slug
invalidRevision(latest) == latest \in {"undefined", "other-slug"}

RevisionReceived ==
  \E latest \in {"ok", "undefined", "other-slug", "rejected"} :
    /\ upd.pc = "revision"
    /\ lastCall' = "revision"
    /\ lastArgs' = << latest >>
    /\ UNCHANGED << driverVars, storeVars, mPrepare, calls, suppressVars >>
    /\ IF latest = "rejected" \/ invalidRevision(latest)
       THEN Settle(upd, "Error", outbox)
       ELSE Goto(upd, "url", Append(outbox, Out("emit", "resolve-collection-url", << >>)))

UrlResolved ==
  \E res \in {"ok", "Error"} :
    /\ upd.pc = "url"
    /\ lastCall' = "url"
    /\ UpdFrame
    /\ IF res = "ok"
       THEN Goto(upd, "download", Append(outbox, Out("emit", "start-download", << >>)))
       ELSE Settle(upd, res, outbox)

\* The download ends: done, already there (with or without a file of that
\* name among the downloads), failed or cancelled.  Then the old bundle is
\* read from the store and the installation started.
\* The catch of lines 43-51 as it would be if it swallowed every error.
downloadFailureSwallowed(res) == "none"

\* What the catch of lines 43-51 throws on: every error of the download but
\* an AlreadyDownloaded whose file is among the downloads.
downloadFailure(res) ==
  CASE res \in {"Error", "UserCanceled"} -> res
    [] res = "AlreadyDownloaded-unknown" -> "AlreadyDownloaded"
    [] OTHER -> "none"

DownloadDone ==
  \E res \in {"ok", "AlreadyDownloaded", "AlreadyDownloaded-unknown", "Error",
              "UserCanceled"} :
    /\ upd.pc = "download"
    /\ lastCall' = "download"
    /\ lastArgs' = << res >>
    /\ UNCHANGED << driverVars, storeVars, mPrepare, calls, suppressVars >>
    /\ IF downloadFailure(res) # "none"
         THEN Settle(upd, downloadFailure(res), outbox)
       ELSE
         LET box == Append(outbox, Out("emit", "analytics-track-click-event", << >>))
         IN IF upd.oldModId \notin DOMAIN upd.mods
            THEN Settle(upd, "TypeError", box)
            ELSE Goto([upd EXCEPT !.oldRules = upd.mods[upd.oldModId].rules],
                      "install",
                      Append(box, Out("emit", "start-install-download", << >>)))

\* What remains once the operations are known: the kept packages are marked,
\* the removal is requested.
finish(u, ops, box) ==
  Goto([u EXCEPT !.ops = ops, !.mods = markKept(u.mods, ops.keep)],
       "remove",
       Append(batchDispatch(box, ops.keep, 1),
              Out("emit", "remove-mods",
                  << GameId, << IdString(u.oldModId) >> \o ops.remove >>)))

\* The installation ends: the new revision is in the store, or it failed or
\* was cancelled.  With obsolete packages the first dialog is shown.
InstallDone ==
  \E res \in {"ok", "Error", "UserCanceled"}, rules \in NewRuleSets :
    /\ upd.pc = "install"
    /\ lastCall' = "install"
    /\ lastArgs' = << res >>
    /\ UNCHANGED << driverVars, storeVars, mPrepare, calls, suppressVars >>
    /\ IF res # "ok"
       THEN Settle(upd, res, outbox)
       ELSE
         LET store == [p \in DOMAIN upd.mods \cup {NewModId} |->
                         IF p = NewModId THEN Mod(FALSE, rules) ELSE upd.mods[p]]
             cands == candidates(upd.oldRules, store)
             others == notCandidates(cands, store, upd.oldModId, NewModId)
             list == obsolete(cands, others, store, NewModId)
             u == [upd EXCEPT !.mods = store, !.newModId = NewModId,
                              !.obsolete = list]
         IN IF Len(list) > 0
            THEN Goto(u, "dialog",
                      Append(outbox, Out("dialog", "Remove mods from old revision?",
                                         << Len(list) >>)))
            ELSE finish(u, u.ops, outbox)

\* The user answers the first dialog, which has no checkbox: its input has no
\* key, or is undefined.
DialogAnswered ==
  \E action \in {"Keep All", "Review Mods", "Remove All"},
     input \in {None, Some(<< >>)} :
    /\ upd.pc = "dialog"
    /\ lastCall' = "dialog"
    /\ UpdFrame
    /\ LET result == DialogResult(action, input)
           next == afterDialog(result, upd.obsolete)
           u == [upd EXCEPT !.result = result]
       IN IF next.review
          THEN Goto(u, "review",
                    Append(outbox, Out("dialog", "Remove mods from old revision?",
                                       << "checkboxes" >>)))
          ELSE finish(u, next.ops, outbox)

\* The user answers the review dialog, with the boxes of selected ticked.
ReviewAnswered ==
  \E action \in {"Keep All", "Remove selected"},
     selected \in SUBSET Range(upd.obsolete) :
    /\ upd.pc = "review"
    /\ lastCall' = "review"
    /\ UpdFrame
    /\ LET input == [i \in DOMAIN upd.obsolete |->
                       [id |-> upd.obsolete[i], value |-> upd.obsolete[i] \in selected]]
           reviewResult == DialogResult(action, Some(input))
           next == afterReview(upd.result, reviewResult, upd.obsolete)
           u == [upd EXCEPT !.reviewResult = reviewResult]
       IN IF next.throws
          THEN Settle(u, "TypeError", outbox)
          ELSE finish(u, next.ops, outbox)

\* The removal ends.
RemoveDone ==
  \E res \in {"ok", "Error"} :
    /\ upd.pc = "remove"
    /\ lastCall' = "remove"
    /\ UpdFrame
    /\ Settle(upd, IF res = "ok" THEN "none" ELSE res, outbox)

NextUpdate ==
  \/ OnCollectionUpdate
  \/ RunUpdate
  \/ RevisionReceived
  \/ UrlResolved
  \/ DownloadDone
  \/ InstallDone
  \/ DialogAnswered
  \/ ReviewAnswered
  \/ RemoveDone

SpecUpdate == InitUpdate /\ [][NextUpdate]_vars

\* ------------------------------------------------------------------ awaits
\* A sixth specification: start(), continue() and the did-install-dependencies
\* handler with an await inside them as a step of its own, and cancel()
\* between the two halves.  calls holds the suspended calls: what each read
\* into locals before its await, the phase its guard saw (step) and whether
\* cancel() was called since (cancelled).  A slot is free again once its call
\* has resumed.
FreeCall ==
  [state |-> "none", kind |-> "none", collection |-> Undefined,
   profile |-> Undefined, recommendations |-> FALSE, step |-> "none",
   cancelled |-> FALSE]

Suspended(kind, collection, profile, recommendations, step) ==
  [state |-> "suspended", kind |-> kind, collection |-> collection,
   profile |-> profile, recommendations |-> recommendations, step |-> step,
   cancelled |-> FALSE]

InitAwait ==
  /\ mProfile = Undefined
  /\ mCollection = Undefined
  /\ mStep = "prepare"
  /\ mInstalledMods = << >>
  /\ mRequiredMods = << >>
  /\ mInstallingMod = Undefined
  /\ mInstallDone = FALSE
  /\ mTotalSize = None
  /\ mods \in SUBSET Installable
  /\ modState = StateOf(mods)
  /\ received = ReceivedOf(mods)
  /\ mPrepare = {}
  /\ preps = [f \in PrepIds |-> [state |-> "none", after |-> {}]]
  /\ calls = [c \in CallIds |-> FreeCall]
  /\ upd = NoRun(<< >>)
  /\ NoSuppression
  /\ outbox = << >>
  /\ lastCall = "none"
  /\ lastArgs = << >>

AwaitFrame ==
  /\ UNCHANGED << storeVars, mPrepare, preps, upd, suppressVars >>
  /\ lastArgs' = << >>

\* start(profile, collection) up to the first await of startImpl (the chain
\* is resolved): its two early returns, the session fields, the size, and the
\* fields startImpl resets.
AwaitStartImpl ==
  \E c \in CallIds, b \in Bundles :
    /\ calls[c].state = "none"
    /\ lastCall' = "start"
    /\ AwaitFrame
    /\ IF ~mInstallDone /\ mCollection # Undefined
       THEN /\ \E d \in {start(Self, "P1", b, "none", FileListA)} : Commit(d)
            /\ UNCHANGED calls
       ELSE LET d1 == [Self EXCEPT !.mProfile = "P1", !.mCollection = b]
                d2 == [d1 EXCEPT !.mTotalSize =
                         Some(calculateCollectionSize(getModsEx(d1, "P1", b)))]
            IN /\ Commit(startImplHead(d2))
               /\ calls' = [calls EXCEPT ![c] = Suspended("start", b, "P1", FALSE, "none")]

\* startImpl goes on after its awaits with the locals it read before them,
\* and start() ends.
ResumeStartImpl ==
  \E c \in CallIds, dlg \in Dialog, walk \in DiskVariants :
    /\ calls[c].state = "suspended"
    /\ calls[c].kind = "start"
    /\ InputsRead(TRUE, calls[c].collection, dlg, walk)
    /\ lastCall' = "resume-start"
    /\ AwaitFrame
    /\ calls' = [calls EXCEPT ![c] = FreeCall]
    /\ \E r \in {startImplTail(Self, calls[c].collection, calls[c].profile, dlg, walk)} :
         Commit(triggerUpdate(initCollectionInfo(r.d)))

\* continue() up to "await this.initCollectionInfo()": the guard.
AwaitContinue ==
  \E c \in CallIds :
    /\ calls[c].state = "none"
    /\ lastCall' = "continue"
    /\ AwaitFrame
    /\ Commit(Self)
    /\ IF canContinue(Self) /\ ~NoArchive(mCollection)
       THEN calls' = [calls EXCEPT ![c] =
                        Suspended("continue", mCollection, mProfile, FALSE, mStep)]
       ELSE UNCHANGED calls

\* continue() goes on: the advance action of the phase it finds now.
ResumeContinue ==
  \E c \in CallIds, dlg \in Dialog, walk \in DiskVariants :
    /\ calls[c].state = "suspended"
    /\ calls[c].kind = "continue"
    /\ InputsRead(mStep = "query", mCollection, dlg, walk)
    /\ lastCall' = "resume-continue"
    /\ AwaitFrame
    /\ calls' = [calls EXCEPT ![c] = FreeCall]
    /\ \E r \in {advance(Self, dlg, walk)} :
         Commit(IF r.res # "false" THEN triggerUpdate(r.d) ELSE r.d)

\* The did-install-dependencies event, up to the await of the handler if it
\* gets there.
AwaitDidInstallDependencies ==
  \E c \in CallIds, modId \in Bundles, recommendations \in BOOLEAN :
    /\ calls[c].state = "none"
    /\ lastCall' = "did-install-dependencies"
    /\ AwaitFrame
    /\ \E h \in {onDidInstallDependenciesHead(Self, modId, recommendations)} :
         /\ Commit(h.d)
         /\ IF h.awaits
            THEN calls' = [calls EXCEPT ![c] =
                             Suspended("dependencies", modId, mProfile,
                                       recommendations, mStep)]
            ELSE UNCHANGED calls

ResumeDidInstallDependencies ==
  \E c \in CallIds :
    /\ calls[c].state = "suspended"
    /\ calls[c].kind = "dependencies"
    /\ lastCall' = "resume-dependencies"
    /\ AwaitFrame
    /\ calls' = [calls EXCEPT ![c] = FreeCall]
    /\ Commit(onDidInstallDependenciesTail(Self, calls[c].collection,
                                           calls[c].recommendations))

\* cancel(), whatever is suspended.
CancelSuspended ==
  /\ lastCall' = "cancel"
  /\ AwaitFrame
  /\ Commit(cancel(Self))
  /\ calls' = [c \in CallIds |->
                 IF calls[c].state = "suspended"
                 THEN [calls[c] EXCEPT !.cancelled = TRUE]
                 ELSE calls[c]]

NextAwait ==
  \/ AwaitStartImpl
  \/ ResumeStartImpl
  \/ AwaitContinue
  \/ ResumeContinue
  \/ AwaitDidInstallDependencies
  \/ ResumeDidInstallDependencies
  \/ CancelSuspended

SpecAwait == InitAwait /\ [][NextAwait]_vars

\* ------------------------------------------------------------------ remote lookups
\* A seventh specification: query(), start() and continue() with the outcome
\* of their remote lookups as an input.  The revision lookup of startImpl is
\* inside a try/catch; the collection lookup of initCollectionInfo is not, so
\* a rejected promise leaves the awaiting method at the await.
\*   embedded: the download carries the collection info, nothing is fetched;
\*   fetched: the lookup resolves with the info; missing: it resolves with
\*   undefined and the revision's copy is used; rejected: it rejects.
CollectionLookups == {"embedded", "fetched", "missing", "rejected"}
RevisionLookups == {"fetched", "rejected"}

\* The rejection a method's caller is left with.
throw(d, what) == [d EXCEPT !.outbox = Append(@, Out("throw", what, << >>))]

Thrown(box) == \E i \in DOMAIN box : box[i].kind = "throw"

\* await this.initCollectionInfo(): the driver after it, and whether the
\* await threw, which ends the calling method there.  Without an archive the
\* function returns before any lookup.
awaitCollectionInfo(d, info) ==
  IF ~NoArchive(d.mCollection) /\ info = "rejected"
  THEN [d |-> throw(d, "getCollectionInfo"), thrown |-> TRUE]
  ELSE [d |-> initCollectionInfo(d), thrown |-> FALSE]

\* The revision lookup of startImpl: its catch block only logs.
awaitRevisionInfo(d, rev) == d

queryWithLookup(d, profile, collection, info) ==
  IF NoArchive(collection) THEN d
  ELSE IF ~d.mInstallDone /\ d.mCollection # Undefined
    THEN sendNotification(d, "warning", "Already installing a collection",
                          Undefined)
  ELSE
    LET a == awaitCollectionInfo(
               [d EXCEPT !.mProfile = profile, !.mCollection = collection,
                         !.mStep = "query"], info)
    IN IF a.thrown THEN a.d ELSE triggerUpdate(a.d)

startWithLookup(d, profile, collection, rev, dlg, walk, info) ==
  IF NoArchive(collection) THEN d
  ELSE IF ~d.mInstallDone /\ d.mCollection # Undefined
    THEN sendNotification(d, "warning", "Already installing a collection", "5000")
  ELSE
    LET d1 == [d EXCEPT !.mProfile = profile, !.mCollection = collection]
        d2 == [d1 EXCEPT !.mTotalSize =
                 Some(calculateCollectionSize(getModsEx(d1, profile, collection)))]
        r == startInstall(awaitRevisionInfo(d2, rev), dlg, walk)
        a == awaitCollectionInfo(r.d, info)
    IN IF a.thrown THEN a.d ELSE triggerUpdate(a.d)

continueWithLookup(d, rev, dlg, walk, info) ==
  IF canContinue(d) /\ ~NoArchive(d.mCollection)
  THEN LET a == awaitCollectionInfo(d, info)
           r == advance(awaitRevisionInfo(a.d, rev), dlg, walk)
       IN IF a.thrown THEN a.d
          ELSE IF r.res # "false" THEN triggerUpdate(r.d) ELSE r.d
  ELSE d

LookupFrame ==
  /\ UNCHANGED prepVars
  /\ UNCHANGED storeVars

QueryWithLookup ==
  \E p \in Profiles, c \in Bundles, info \in CollectionLookups :
    /\ \E d \in {queryWithLookup(Self, p, c, info)} : Commit(d)
    /\ lastCall' = "query"
    /\ lastArgs' = << p, c, "fetched", "none", FileListA, info >>
    /\ LookupFrame

StartWithLookup ==
  \E p \in Profiles, c \in Bundles, rev \in RevisionLookups, dlg \in Dialog,
     walk \in {FileListA}, info \in CollectionLookups :
    /\ \E d \in {startWithLookup(Self, p, c, rev, dlg, walk, info)} : Commit(d)
    /\ lastCall' = "start"
    /\ lastArgs' = << p, c, rev, dlg, walk, info >>
    /\ LookupFrame

ContinueWithLookup ==
  \E rev \in RevisionLookups, dlg \in Dialog, walk \in {FileListA},
     info \in CollectionLookups :
    /\ rev = "fetched" \/ mStep = "query"
    /\ dlg = "none" \/ mStep = "query"
    /\ \E d \in {continueWithLookup(Self, rev, dlg, walk, info)} : Commit(d)
    /\ lastCall' = "continue"
    /\ lastArgs' = << mProfile, mCollection, rev, dlg, walk, info >>
    /\ LookupFrame

NextLookup ==
  \/ QueryWithLookup
  \/ StartWithLookup
  \/ ContinueWithLookup
  \/ Cancel
  \/ InstallMod
  \/ DidInstallDependencies

SpecLookup == Init /\ [][NextLookup]_vars

\* ------------------------------------------------------------------ repeated events
\* An eighth specification: sessions in which the host delivers did-install-mod
\* more than once, also for the same package, with a cap of its own on the
\* length of mInstalledMods.
MaxRepeated == 2

DidInstallModRepeated ==
  \E p \in Installable :
    /\ \E d \in {didInstallMod(Self, IF p \in mods THEN p ELSE Undefined)} :
         /\ Len(d.mInstalledMods) <= MaxRepeated
         /\ Commit(d)
    /\ lastCall' = "did-install-mod"
    /\ lastArgs' = << p >>
    /\ UNCHANGED prepVars
    /\ UNCHANGED storeVars

NextRepeat ==
  \/ Start
  \/ Cancel
  \/ InstallMod
  \/ DidInstallModRepeated

SpecRepeat == Init /\ [][NextRepeat]_vars

\* ------------------------------------------------------------------ test suppression
\* A ninth specification: the driver with the suppression of the
\* 'plugins-changed' test.  startInstall hands the host a promise that stays
\* pending until this.mOnStop is called; the host runs the test again once the
\* promise is resolved.  suppressed holds the pending promises, mOnStop the one
\* the field would resolve.
MaxSuppressed == 2

Suppression == [mOnStop |-> mOnStop, suppressed |-> suppressed]

\* startInstall, lines 417-423: a new pending promise, and mOnStop is set to
\* the function that resolves it.
withSuppressedTests(t) ==
  LET free == (1..MaxSuppressed) \ t.suppressed
      id == CHOOSE n \in free : \A m \in free : n <= m
  IN [mOnStop |-> id, suppressed |-> t.suppressed \cup {id}]

\* this.mOnStop?.() at the end of onStop: resolve() and mOnStop = undefined.
callOnStop(t) ==
  IF t.mOnStop = 0 THEN t
  ELSE [mOnStop |-> 0, suppressed |-> t.suppressed \ {t.mOnStop}]

\* close (605-609) does not call onStop.
closeSuppression(t) == t

Suppress(t) ==
  /\ mOnStop' = t.mOnStop
  /\ suppressed' = t.suppressed

SuppressFrame ==
  /\ UNCHANGED << mPrepare, preps, calls, upd >>
  /\ UNCHANGED storeVars
  /\ lastArgs' = << >>

\* start() runs startInstall once it is past its two early returns.
StartSuppressing ==
  \E p \in Profiles, c \in Bundles, dlg \in Dialog :
    \E opens \in {ReachesStartImpl(Self, c)} :
      /\ opens \/ dlg = "none"
      /\ opens => Cardinality(suppressed) < MaxSuppressed
      /\ \E d \in {start(Self, p, c, dlg, FileListA)} : Commit(d)
      /\ Suppress(IF opens THEN withSuppressedTests(Suppression) ELSE Suppression)
      /\ lastCall' = "start"
      /\ SuppressFrame

\* continue() runs startInstall in phase query and close in phase review.
ContinueSuppressing ==
  \E dlg \in Dialog :
    \E runs \in {canContinue(Self) /\ ~NoArchive(mCollection)} :
      /\ (runs /\ mStep = "query" /\ mProfile # Undefined) \/ dlg = "none"
      /\ (runs /\ mStep = "query") => Cardinality(suppressed) < MaxSuppressed
      /\ \E d \in {continue(Self, dlg, FileListA)} : Commit(d)
      /\ Suppress(IF runs /\ mStep = "query" THEN withSuppressedTests(Suppression)
                  ELSE IF runs /\ mStep = "review" THEN closeSuppression(Suppression)
                  ELSE Suppression)
      /\ lastCall' = "continue"
      /\ SuppressFrame

CancelSuppressing ==
  /\ \E d \in {cancel(Self)} : Commit(d)
  /\ Suppress(callOnStop(Suppression))
  /\ lastCall' = "cancel"
  /\ SuppressFrame

\* The did-install-dependencies handler calls onStop when an optional pass
\* ends with rules still unresolved.
DidInstallDependenciesSuppressing ==
  \E m \in Bundles, rec \in BOOLEAN :
    \E d \in {onDidInstallDependencies(Self, m, rec)} :
      /\ Commit(d)
      /\ Suppress(IF mCollection = m /\ rec /\ d.mCollection = Undefined
                  THEN callOnStop(Suppression) ELSE Suppression)
      /\ lastCall' = "did-install-dependencies"
      /\ SuppressFrame

NextSuppress ==
  \/ StartSuppressing
  \/ ContinueSuppressing
  \/ CancelSuppressing
  \/ DidInstallDependenciesSuppressing
  \/ InstallMod

SpecSuppress == Init /\ [][NextSuppress]_vars

\* ------------------------------------------------------------------ claims

\* C1: a start() made while a session is active and installDone is false is
\* rejected: no driver field changes and no install-dependencies signal is
\* emitted by the call.
C1_StartRejected ==
  [][ (mCollection # Undefined /\ ~mInstallDone /\ lastCall' = "start")
        => (UNCHANGED driverVars /\ Signals(outbox') = << >>) ]_vars

\* A start() has just been rejected in the middle of an installation.
C1_Witness ==
  /\ lastCall = "start"
  /\ Warned(outbox)
  /\ mCollection # Undefined
  /\ ~mInstallDone
  /\ mStep = "installing"

\* C2: a start() made while a session is in progress (bundle set, phase start,
\* installing, recommendations or review) is rejected: it never replaces the
\* session's bundle or profile.
C2_Claim ==
  [][ ( /\ mCollection # Undefined
        /\ mStep \in {"start", "installing", "recommendations", "review"}
        /\ lastCall' = "start" )
        => (mCollection' = mCollection /\ mProfile' = mProfile) ]_vars

\* C3: installDone is true iff no requires rule of the current session is left
\* unresolved, after each transition path the claim names: the
\* dependency-finished event for the session's bundle, cancel, the
\* version-mismatch abort, and close.
UnresolvedRequires ==
  IF mCollection = Undefined THEN 0 ELSE Incomplete(mCollection, {"requires"})

C3_Path ==
  \/ lastCall' = "did-install-dependencies"
       /\ mCollection # Undefined
       /\ Dismissed(outbox', INSTALLING_NOTIFICATION_ID \o mCollection)
  \/ lastCall' = "cancel"
  \/ DialogCancelled(outbox')
  \/ lastCall' = "continue" /\ mStep = "review" /\ canContinue(Self)

C3_Claim ==
  [][ C3_Path => (mInstallDone' <=> (UnresolvedRequires' = 0)) ]_vars

\* C4: continue() where canContinue() is false changes no driver field and
\* fires no update callback (it sends nothing at all).
C4_ContinueNoOp ==
  [][ (~canContinue(Self) /\ lastCall' = "continue")
        => (UNCHANGED driverVars /\ Updates(outbox') = 0 /\ outbox' = << >>) ]_vars

\* A continue() has just been ignored while the dependencies of an active
\* session are still being installed.
C4_Witness ==
  /\ lastCall = "continue"
  /\ outbox = << >>
  /\ mCollection # Undefined
  /\ mStep = "installing"
  /\ ~mInstallDone
  /\ ~canContinue(Self)

\* C5: from an active session in phase review, continue() called once or
\* repeatedly ends in phase prepare with installDone true and no bundle: when
\* the state a continue() from review leaves is one that further continue()
\* calls no longer change, it is that state.
ContinueIdle ==
  \A dlg \in Dialog, walk \in DiskVariants :
    LET d == continue(Self, dlg, walk)
    IN /\ d.mStep = mStep
       /\ d.mCollection = mCollection
       /\ d.mInstallDone = mInstallDone

C5_Claim ==
  [][ ( /\ mStep = "review"
        /\ mCollection # Undefined
        /\ lastCall' = "continue"
        /\ ContinueIdle' )
        => (mStep' = "prepare" /\ mInstallDone' /\ mCollection' = Undefined) ]_vars

\* C6: after a start() that was accepted and not aborted at the version
\* dialog, requiredRules is the list, in rule order, of the bundle's requires
\* rules with no installed package or with a package that fails fulfillment
\* (the files walked differ from the manifest, or the installer choices
\* differ).
StartWalk ==
  LET walks == SelectSeq(outbox, LAMBDA o : o.kind = "walk")
  IN IF walks = << >> THEN FileListA ELSE walks[1].arg[1]

Fulfilled(rule, mod, walk) ==
  /\ (rule.fileList # None /\ Len(rule.fileList[1]) > 0)
       => walk = rule.fileList[1]
  /\ rule.installerChoices = ModChoices(mod)

ExpectedRequired(c, walk) ==
  SelectSeq(RulesOf(c),
            LAMBDA r : /\ r.type = "requires"
                       /\ \/ findModByRef(r.reference, mods) = Undefined
                          \/ ~Fulfilled(r, findModByRef(r.reference, mods), walk))

C6_Claim ==
  ( /\ lastCall = "start"
    /\ Updates(outbox) = 1
    /\ ~DialogCancelled(outbox) )
    => mRequiredMods = ExpectedRequired(mCollection, StartWalk)

\* C7: a continue() in phase start with an active session emits exactly one
\* install-dependencies signal, for the session's profile, its game and the
\* list of the session's bundle alone, and moves the phase to installing; no
\* other operation emits the signal, and never for another bundle.
ExpectedSignal ==
  Out("emit", "install-dependencies",
      << mProfile, GameId, << mCollection >>, TRUE >>)

C8_Claim ==
  [][ /\ DialogCancelled(outbox') => (mInstallDone' /\ mStep' = "prepare")
      /\ (DialogCancelled(outbox) /\ lastCall' = "continue")
           => Signals(outbox') = << >> ]_vars

\* C9: cancel() leaves phase prepare and every session field cleared (bundle,
\* profile, installedMods, requiredRules, installingMod), dismisses the
\* session's progress notification and fires the update callbacks.
C9_Claim ==
  [][ lastCall' = "cancel"
        => ( /\ mStep' = "prepare"
             /\ mCollection' = Undefined
             /\ mProfile' = Undefined
             /\ mInstalledMods' = << >>
             /\ mRequiredMods' = << >>
             /\ mInstallingMod' = Undefined
             /\ mCollection # Undefined
                  => Dismissed(outbox', INSTALLING_NOTIFICATION_ID \o mCollection)
             /\ Updates(outbox') >= 1 ) ]_vars

\* C10: whenever no bundle is set the phase is prepare.
C10_Claim == mCollection = Undefined => mStep = "prepare"

C13_Adopt ==
  [][ lastCall' = "will-install-dependencies"
        => /\ (mCollection' # mCollection \/ mStep' # mStep \/ mProfile' # mProfile)
                => ( /\ mCollection = Undefined
                     /\ lastArgs'[2]
                     /\ ModType(lastArgs'[1]) = MOD_TYPE
                     /\ mCollection' = lastArgs'[1]
                     /\ mStep' = "installing"
                     /\ mProfile' = mProfile )
           /\ mCollection # Undefined
                => UNCHANGED << mCollection, mProfile, mStep >> ]_vars

\* The event has just been delivered for another bundle than the session's,
\* on an optional pass, and the session stands.
C13_Witness ==
  /\ lastCall = "will-install-dependencies"
  /\ lastArgs \in Bundles \X {TRUE}
  /\ mCollection \in Bundles \ {lastArgs[1]}
  /\ mProfile # Undefined
  /\ mStep = "start"

\* C14: query(profile, bundle) emits no install-dependencies signal and
\* dispatches nothing; with a session active and installDone false it leaves
\* phase, bundle and profile alone; otherwise it sets phase query, the given
\* bundle and the given profile.
Dispatches(box) == SelectSeq(box, LAMBDA o : o.kind \in {"dispatch", "emit"})

C14_Query ==
  [][ lastCall' = "query"
        => /\ Signals(outbox') = << >>
           /\ Dispatches(outbox') = << >>
           /\ IF mCollection # Undefined /\ ~mInstallDone
              THEN UNCHANGED << mStep, mCollection, mProfile >>
              ELSE lastArgs'[2] \in Bundles
                     => ( /\ mStep' = "query"
                          /\ mCollection' = lastArgs'[2]
                          /\ mProfile' = lastArgs'[1] ) ]_vars

\* A query has just been rejected in the middle of an installation.
C14_Witness ==
  /\ lastCall = "query"
  /\ lastArgs[2] \in Bundles
  /\ Warned(outbox)
  /\ mCollection \in Bundles \ {lastArgs[2]}
  /\ ~mInstallDone
  /\ mStep = "installing"

\* C16: totalSize is computed when a session begins, from the rules of that
\* session's bundle, whether the session begins with start() or with query()
\* followed by continue(), and is not changed afterwards while the session's
\* bundle stays the same.
SessionSize ==
  Some(calculateCollectionSize(getModsEx(Self, mProfile, mCollection)))

BeginsByStart == lastCall' = "start" /\ Updates(outbox') = 1

BeginsByContinue ==
  lastCall' = "continue" /\ mStep = "query" /\ Updates(outbox') = 1

C16_Claim ==
  [][ /\ (BeginsByStart \/ BeginsByContinue)
           => mTotalSize' = SessionSize'
      /\ ( /\ mCollection # Undefined
           /\ mCollection' = mCollection
           /\ mTotalSize # None
           /\ ~BeginsByStart )
           => mTotalSize' = mTotalSize ]_vars

\* C20: after startImpl has checked an installed package against a requires
\* rule's file manifest, the rule is left out of requiredRules exactly when
\* the (path, hash) pairs found on disk equal the manifest as a set, whatever
\* the order they were enumerated in; a missing file, an extra file or a
\* differing hash puts the rule in requiredRules.
ManifestRule(c, mod) ==
  LET i == Find(RulesOf(c), LAMBDA r : /\ r.type = "requires"
                                       /\ r.reference = mod
                                       /\ r.fileList # None)
  IN RulesOf(c)[i]

WalksOf(box) == SelectSeq(box, LAMBDA o : o.kind = "walk")

C20_Claim ==
  \A i \in DOMAIN WalksOf(outbox) :
    LET w == WalksOf(outbox)[i]
        rule == ManifestRule(mCollection, w.name)
    IN (Range(w.arg[1]) = Range(rule.fileList[1]))
         <=> (rule \notin Range(mRequiredMods))

\* C17: every progress value the driver computes and sends is a defined
\* number within [0,100]: with totalSize 0 or no relevant entry the fraction
\* counts as 0, never as the result of a division by zero.
ProgressSent(box) ==
  SelectSeq(box, LAMBDA o : o.kind = "notify" /\ Len(o.arg) = 3)

InRange(x) ==
  /\ x.kind = "finite"
  /\ 0 <= x.num
  /\ x.num <= 100 * x.den

C17_Claim ==
  \A i \in DOMAIN ProgressSent(outbox) : InRange(ProgressSent(outbox)[i].arg[3])

\* C18: within one session with totalSize unchanged, the progress value does
\* not decrease when a package moves forward (pending, downloading with the
\* received bytes growing, installed).
Progress == installProgress(Self, mProfile, mCollection)

Leq(x, y) ==
  /\ x.kind = "finite"
  /\ y.kind = "finite"
  /\ x.num * y.den <= y.num * x.den

Present(id) == id.kind # "undefined"

ExpectedMatch(repo, ref) ==
  IF /\ repo # None
     /\ ref.kind = "object"
     /\ Present(repo[1].modId) /\ Present(repo[1].fileId)
     /\ Present(ref.modId) /\ Present(ref.fileId)
     /\ repo[1].modId.text = ref.modId.text
     /\ repo[1].fileId.text = ref.fileId.text
  THEN "true" ELSE "false"

C19_Claim ==
  lastCall = "matchRepo"
    => outbox[1].arg[1] = ExpectedMatch(lastArgs[1], lastArgs[2])

\* C15: the body of a query() or start() call runs only after every
\* preparation handed to prepare() before the call is done, and a preparation
\* that is not done yet stays in the chain that later calls wait on.
C15_Claim ==
  /\ \A c \in CallIds : calls[c].state = "ran" => ~calls[c].early
  /\ \A f \in PrepIds : preps[f].state \in {"queued", "running"} => f \in mPrepare

\* C21: after an accepted start(), a requires rule whose installed package has
\* the files of the manifest but other installer choices than the rule expects
\* is in requiredRules, and so are the requires rules after it that have no
\* installed package (the evaluation went on).
ChoicesDiffer(rule) ==
  LET mod == findModByRef(rule.reference, mods)
  IN /\ rule.type = "requires"
     /\ mod # Undefined
     /\ (rule.fileList # None => StartWalk = rule.fileList[1])
     /\ rule.installerChoices # ModChoices(mod)

C21_Claim ==
  ( /\ lastCall = "start"
    /\ Updates(outbox) = 1
    /\ ~DialogCancelled(outbox) )
    => \A i \in DOMAIN RulesOf(mCollection) :
         ChoicesDiffer(RulesOf(mCollection)[i])
           => /\ RulesOf(mCollection)[i] \in Range(mRequiredMods)
              /\ \A j \in DOMAIN RulesOf(mCollection) :
                   ( /\ j > i
                     /\ RulesOf(mCollection)[j].type = "requires"
                     /\ findModByRef(RulesOf(mCollection)[j].reference, mods)
                          = Undefined )
                     => RulesOf(mCollection)[j] \in Range(mRequiredMods)

\* ------------------------------------------------------------------ claims on the reconciliation
\* Package z of the store has a requires or recommends rule on package y.
RefersTo(z, y) ==
  \E i \in DOMAIN upd.mods[z].rules :
    /\ upd.mods[z].rules[i].type \in {"requires", "recommends"}
    /\ upd.mods[z].rules[i].reference = y

\* y was installed as a dependency and the old bundle depends on it.
IsCandidate(y) ==
  /\ y \in DOMAIN upd.mods
  /\ upd.mods[y].installedAsDependency
  /\ RefersTo(upd.oldModId, y)

\* The new revision has just been installed and the obsolete list computed.
Reconciled == lastCall = "install" /\ upd.newModId # Undefined

\* C22: once the new revision is installed, a candidate (installed as a
\* dependency, referenced by a requires/recommends rule of the old bundle) is
\* in the obsolete list if and only if no requires/recommends rule of the new
\* bundle references it and no installed package other than the candidates,
\* the old bundle and the new bundle has such a rule on it.
C22_Obsolete ==
  Reconciled =>
    \A y \in DOMAIN upd.mods :
      IsCandidate(y) =>
        ( y \in Range(upd.obsolete)
          <=> /\ ~RefersTo(upd.newModId, y)
              /\ \A z \in DOMAIN upd.mods :
                   ( ~IsCandidate(z) /\ z \notin {upd.oldModId, upd.newModId} )
                     => ~RefersTo(z, y) )

\* Two candidates, one obsolete and one still referenced.
C22_Witness ==
  /\ Reconciled
  /\ \E y, z \in DOMAIN upd.mods :
       /\ IsCandidate(y) /\ IsCandidate(z)
       /\ y \in Range(upd.obsolete)
       /\ z \notin Range(upd.obsolete)

\* C23: once the new revision is installed, a candidate that any other
\* installed package (not the old bundle, not the new one; another candidate
\* included) references by a requires/recommends rule is not in the obsolete
\* list.
C23_Claim ==
  Reconciled =>
    \A y \in DOMAIN upd.mods :
      \A z \in DOMAIN upd.mods \ {upd.oldModId, upd.newModId, y} :
        ( IsCandidate(y) /\ RefersTo(z, y) ) => y \notin Range(upd.obsolete)

\* The removal requests sent so far, and the packages one of them names (as
\* an id or as an object).
RemovalRequests(box) ==
  SelectSeq(box, LAMBDA o : o.kind = "emit" /\ o.name = "remove-mods")

Named(request, y) ==
  \E i \in DOMAIN request.arg[2] : request.arg[2][i].id = y

Ticked(y) ==
  /\ upd.reviewResult.input # None
  /\ \E i \in DOMAIN upd.reviewResult.input[1] :
       /\ upd.reviewResult.input[1][i].id = y
       /\ upd.reviewResult.input[1][i].value

\* What the user chose for obsolete package y.
ChoseRemove(y) ==
  \/ upd.result.action = "Remove All"
  \/ /\ upd.result.action = "Review Mods"
     /\ upd.reviewResult.action = "Remove selected"
     /\ Ticked(y)

ChoseKeep(y) ==
  \/ upd.result.action = "Keep All"
  \/ /\ upd.result.action = "Review Mods"
     /\ \/ upd.reviewResult.action = "Keep All"
        \/ upd.reviewResult.action = "Remove selected" /\ ~Ticked(y)

\* C24: while a disposition dialog is open no removal has been requested, and
\* a removal request names an obsolete package only if the user chose to
\* remove it ('Remove All', or ticked in the review); with 'Keep All' it names
\* none.
C24_Disposition ==
  /\ upd.pc \in {"dialog", "review"} => RemovalRequests(outbox) = << >>
  /\ \A i \in DOMAIN RemovalRequests(outbox) :
       \A y \in Range(upd.obsolete) :
         Named(RemovalRequests(outbox)[i], y) => ChoseRemove(y)

\* 'Remove All' was answered and the request names an obsolete package.
C24_Witness ==
  /\ upd.pc = "remove"
  /\ upd.result.action = "Remove All"
  /\ \E y \in Range(upd.obsolete) : Named(RemovalRequests(outbox)[1], y)

\* C25: when the workflow has ended without an error, every obsolete package
\* the user chose to keep has installedAsDependency false in the store, set by
\* a setModAttribute addressed by the package's id.
C25_Claim ==
  ( upd.pc = "done" /\ upd.err = "none" ) =>
    \A y \in Range(upd.obsolete) :
      ChoseKeep(y) =>
        /\ upd.mods[y].installedAsDependency = FALSE
        /\ \E i \in DOMAIN outbox :
             /\ outbox[i].kind = "dispatch"
             /\ outbox[i].name = "setModAttribute"
             /\ outbox[i].arg[2] = IdString(y)

\* C26: a run that installed the new revision and has ended made exactly one
\* 'remove-mods' request, whose list holds the id of the old bundle and the
\* ids of the obsolete packages the user chose to remove.
C26_Claim ==
  ( upd.pc = "done" /\ upd.newModId # Undefined ) =>
    /\ Len(RemovalRequests(outbox)) = 1
    /\ Includes(RemovalRequests(outbox)[1].arg[2], IdString(upd.oldModId))
    /\ \A y \in Range(upd.obsolete) :
         ChoseRemove(y) => Includes(RemovalRequests(outbox)[1].arg[2], IdString(y))

ErrorNotifications(box) ==
  Len(SelectSeq(box, LAMBDA o : o.kind = "notify" /\ o.name = "error"))

\* C27: a run that ended on an error other than a cancellation sent exactly
\* one error notification, a run that ended on a cancellation sent none, and
\* in both the promise handed to the driver is resolved, not rejected.
C27_Failure ==
  upd.pc = "done" =>
    /\ upd.err \notin {"none", "UserCanceled"} => ErrorNotifications(outbox) = 1
    /\ upd.err = "UserCanceled" => ErrorNotifications(outbox) = 0
    /\ upd.outcome = "resolved"

\* The review read the undefined input of the first dialog, and the error
\* was notified once.
C27_Witness ==
  /\ upd.pc = "done"
  /\ upd.err = "TypeError"
  /\ upd.reviewResult.action = "Remove selected"
  /\ ErrorNotifications(outbox) = 1

\* ------------------------------------------------------------------ claims on the awaits
\* The advance action continue() runs in a phase.
ActionOf(step) ==
  CASE step = "query" -> "startInstall"
    [] step = "start" -> "begin"
    [] step = "disclaimer" -> "closeDisclaimers"
    [] step \in {"installing", "recommendations"} -> "finishInstalling"
    [] step = "review" -> "close"
    [] OTHER -> "none"

\* C28: when a suspended continue() resumes, the phase goes from 'installing'
\* to 'review' only if installDone is true, and the advance action it runs is
\* none or that of the phase its canContinue() guard was evaluated in.
C28_Claim ==
  [][ \A c \in CallIds :
        ( /\ lastCall' = "resume-continue"
          /\ calls[c].state = "suspended" /\ calls[c].kind = "continue"
          /\ calls'[c].state = "none" )
          => /\ (mStep = "installing" /\ mStep' = "review") => mInstallDone
             /\ ActionOf(mStep) \in {"none", ActionOf(calls[c].step)} ]_vars

\* What a step told the host about a session: a progress notification, a
\* setModEnabled dispatch or a view-collection signal.
SessionOutputs(box) ==
  SelectSeq(box, LAMBDA o : \/ o.kind = "notify" /\ o.arg[1] = "activity"
                            \/ o.kind = "dispatch" /\ o.name = "setModEnabled"
                            \/ o.kind = "emit" /\ o.name = "view-collection")

\* C29: when a call suspended while cancel() was called resumes and no
\* session was started since, the phase stays 'prepare', bundle and profile
\* stay unset, requiredRules is not rewritten, and no progress notification,
\* setModEnabled dispatch or view-collection signal goes out.
C29_Claim ==
  [][ \A c \in CallIds :
        ( /\ calls[c].state = "suspended" /\ calls[c].cancelled
          /\ calls'[c].state = "none"
          /\ mCollection = Undefined /\ mStep = "prepare" )
          => /\ mStep' = "prepare"
             /\ mCollection' = Undefined
             /\ mProfile' = Undefined
             /\ mRequiredMods' = mRequiredMods
             /\ SessionOutputs(outbox') = << >> ]_vars

\* ------------------------------------------------------------------ claims on the events
\* C30: a did-install-mod event appends to installedMods only when a session
\* is active and a requires rule of its bundle references the package, and a
\* did-install-dependencies event for another id than the session's bundle
\* leaves phase, installDone and bundle as they are.
C30_Claim ==
  [][ /\ ( lastCall' = "did-install-mod" /\ mInstalledMods' # mInstalledMods )
           => /\ mCollection # Undefined
              /\ \E i \in DOMAIN RulesOf(mCollection) :
                   /\ RulesOf(mCollection)[i].type = "requires"
                   /\ RulesOf(mCollection)[i].reference
                        = mInstalledMods'[Len(mInstalledMods')]
      /\ ( lastCall' = "did-install-dependencies" /\ lastArgs'[1] # mCollection )
           => UNCHANGED << mStep, mInstallDone, mCollection >> ]_vars

\* C31: a failed remote lookup never aborts the operation: when the revision
\* lookup or the collection lookup of a query(), start() or continue() call
\* is rejected, the call still returns without throwing, leaves the phase
\* where the same call with successful lookups leaves it, and fires the
\* update callbacks as often as that call does.
LookupFailed(args) == args[3] = "rejected" \/ args[6] = "rejected"

WithLookups(call, d, args, rev, info) ==
  CASE call = "query" -> queryWithLookup(d, args[1], args[2], info)
    [] call = "start" ->
         startWithLookup(d, args[1], args[2], rev, args[4], args[5], info)
    [] OTHER -> continueWithLookup(d, rev, args[4], args[5], info)

C31_Claim ==
  [][ (lastCall' \in {"query", "start", "continue"} /\ LookupFailed(lastArgs'))
        => \E ok \in {WithLookups(lastCall', Self, lastArgs', "fetched", "fetched")} :
             /\ ~Thrown(outbox')
             /\ mStep' = ok.mStep
             /\ Updates(outbox') = Updates(ok.outbox) ]_vars

\* C32: once 'Remove selected' was answered in the review dialog, the
\* operations of the run are: remove exactly the obsolete packages ticked in
\* the review, keep exactly the others, which then have installedAsDependency
\* false in the store; the two lists partition the obsolete list.
C32_Claim ==
  ( upd.reviewResult.action = "Remove selected" /\ upd.pc \in {"remove", "done"} )
    => /\ Range(upd.ops.remove)
            = {IdString(y) : y \in {z \in Range(upd.obsolete) : Ticked(z)}}
       /\ Range(upd.ops.keep)
            = {IdString(y) : y \in {z \in Range(upd.obsolete) : ~Ticked(z)}}
       /\ \A y \in Range(upd.obsolete) :
            ~Ticked(y) => upd.mods[y].installedAsDependency = FALSE

\* What a run sent out that starts a download or an installation, changes an
\* attribute or removes a package.
Effects(box) ==
  SelectSeq(box, LAMBDA o :
    \/ o.kind = "emit" /\ o.name \in {"start-download", "start-install-download",
                                      "remove-mods"}
    \/ o.kind = "dispatch")

\* C33: when the revision received is undefined or is of a collection with
\* another slug, the run ends there on an error, notified once: the store is
\* as it was, and the run has started no download and no installation,
\* changed no attribute and requested no removal.
C33_Abort ==
  [][ (lastCall' = "revision" /\ lastArgs'[1] \in {"undefined", "other-slug"})
        => /\ upd'.pc = "done"
           /\ upd'.err = "Error"
           /\ upd'.mods = upd.mods
           /\ Effects(outbox') = << >>
           /\ ErrorNotifications(outbox') = 1 ]_vars

\* The revision of another collection was received and the run has ended.
C33_Witness ==
  /\ lastCall = "revision"
  /\ lastArgs = << "other-slug" >>
  /\ upd.pc = "done"
  /\ upd.mods # << >>

\* ------------------------------------------------------------------ claims on the driver's invariants
\* C34: in every reachable state the phase is one of prepare, query, start,
\* installing, recommendations and review; disclaimer and changelog are never
\* entered.
C34_Phases ==
  mStep \in {"prepare", "query", "start", "installing", "recommendations",
             "review"}

\* begin has just run: the phase went from start to installing.
C34_Witness ==
  /\ lastCall = "continue"
  /\ mStep = "installing"
  /\ Signals(outbox) # << >>
  /\ ~mInstallDone

\* C35: in every reachable state with a session (the bundle is set) outside
\* phase prepare the profile of the session is defined, also when the session
\* was adopted by a will-install-dependencies event.
C35_Claim ==
  (mCollection # Undefined /\ mStep # "prepare") => mProfile # Undefined

\* C36: in every reachable state installedMods holds a package at most once
\* and is no longer than requiredRules (numRequired), whatever did-install-mod
\* events were delivered, repeated ones for one package included.
C36_Claim ==
  /\ \A i, j \in DOMAIN mInstalledMods :
       i # j => mInstalledMods[i] # mInstalledMods[j]
  /\ Len(mInstalledMods) <= Len(mRequiredMods)

\* C37: every test suppression opened by startInstall is released when its
\* session ends (by cancel(), by the close of the review or by the teardown
\* of an optional pass) and when startInstall runs again: without a session
\* no suppression is pending, and a pending one is the one mOnStop releases.
C37_Claim ==
  /\ mCollection = Undefined => suppressed = {}
  /\ suppressed \subseteq {mOnStop}

\* The setModAttribute dispatches of a run.
AttributeChanges(box) ==
  SelectSeq(box, LAMBDA o : o.kind = "dispatch" /\ o.name = "setModAttribute")

\* C38: when the download or the installation of the new revision fails or
\* is cancelled the run ends there: no removal has been requested, no
\* installedAsDependency attribute dispatched and the store is as it was; and
\* a removal is requested or an attribute changed only in a run that has the
\* id of the newly installed revision.
C38_NoRemoval ==
  [][ /\ ( \/ lastCall' = "download"
              /\ lastArgs'[1] \in {"Error", "UserCanceled", "AlreadyDownloaded-unknown"}
           \/ lastCall' = "install" /\ lastArgs'[1] \in {"Error", "UserCanceled"} )
          => /\ upd'.pc = "done"
             /\ upd'.err # "none"
             /\ upd'.mods = upd.mods
             /\ RemovalRequests(outbox') = << >>
             /\ AttributeChanges(outbox') = << >>
      /\ (RemovalRequests(outbox') # << >> \/ AttributeChanges(outbox') # << >>)
          => upd'.newModId # Undefined ]_vars

\* The installation of the new revision failed in a store with a package the
\* old bundle alone depends on, and the run has ended.
C38_Witness ==
  /\ lastCall = "install"
  /\ lastArgs = << "Error" >>
  /\ upd.pc = "done"
  /\ IsCandidate("Y")

\* C39: a method or an event handler that changes the phase or the bundle of
\* the driver calls the update callbacks before it is done, the
\* did-install-dependencies handler of an optional pass and the adoption by
\* will-install-dependencies included.
C39_Claim ==
  [][ (mStep' # mStep \/ mCollection' # mCollection)
        => Updates(outbox') >= 1 ]_vars

====
